---- MODULE Spec2Model ----
(***************************************************************************)
(* Model of the historical-stats ingestion pipeline                        *)
(* (backend/scripts/ingest_historical_stats.py, class NBADataIngestion)    *)
(* and of the tables it writes (backend/db_models/db_schema.py).           *)
(*                                                                         *)
(* One invocation of the script is one "run": a fresh NBADataIngestion     *)
(* instance (empty processed sets, retry queue reloaded from disk) whose   *)
(* run_ingestion walks the active players, drains the retry queue once and *)
(* finishes with the clean-up and verification queries.  The database, the *)
(* response cache and the retry-queue snapshot survive between runs.       *)
(*                                                                         *)
(* The web application (backend/app.py) is modelled next to it: the pure   *)
(* calculate_confidence and the handlers of /api/picks and /api/props,     *)
(* each as the steps of one request over an upstream answer.               *)
(***************************************************************************)
EXTENDS Integers, Sequences, FiniteSets, TLC

VARIABLES
    pc,                 \* position of the running invocation in run_ingestion
    run,                \* number of invocations started so far
    now,                \* wall clock (datetime.now()), in ticks
    db_players,         \* committed rows of table players
    db_stats,           \* committed rows of table player_stats
    next_id,            \* next value of the player_stats.id sequence
    cache,              \* keys of the response cache files that exist
    disk_queue,         \* content of retry_queue.json (<<>> when the file is absent)
    retry_queue,        \* self.retry_queue
    processed_player_ids, \* self.processed_player_ids
    processed_game_ids, \* self.processed_game_ids
    active_players,     \* the slice of players run_ingestion iterates
    idx,                \* 1-based position in active_players
    sidx,               \* 1-based position in self.seasons
    games,              \* rows of the data frame still to be iterated
    games_processed,    \* process_player's local counter
    errors,             \* process_player's local counter
    consecutive_timeouts, \* run_ingestion's local counter
    last_timer_check,   \* self.stats["last_timer_check"]
    queue_copy,         \* process_retry_queue's queue_copy, items still to visit
    current_time,       \* process_retry_queue's current_time
    item,               \* process_retry_queue's loop variable
    db_errors,          \* database failures injected so far
    api_errors,         \* provider failures injected so far
    lastFetch,          \* log of the last fetch (cache lookup / provider call)
    lastStore,          \* log of the last store_game_stats call
    lastDrain,          \* log of the last item visited by process_retry_queue
    report,             \* what the integrity phase of the invocation wrote to the log
    invoked,            \* ids of the players process_player was called for, in call order
    app_pc,             \* position of the request the web application is serving
    app_upstream,       \* what the top-level upstream call of the handler did
    app_games,          \* the events of the upstream answer
    app_idx,            \* 1-based position of the handler in app_games
    app_processed,      \* processed_games / processed_props of the handler
    response,           \* the response the handler returned
    lastConf,           \* log of the last stand-alone calculate_confidence call
    procs               \* ingestion processes at work on the same database at once

\* the state of the ingestion script and of its files and tables
ingestvars == <<pc, run, now, db_players, db_stats, next_id, cache, disk_queue,
                retry_queue, processed_player_ids, processed_game_ids, active_players,
                idx, sidx, games, games_processed, errors, consecutive_timeouts,
                last_timer_check, queue_copy, current_time, item, db_errors, api_errors,
                lastFetch, lastStore, lastDrain, report, invoked>>

\* the state of the web application (backend/app.py)
appvars == <<app_pc, app_upstream, app_games, app_idx, app_processed, response, lastConf>>

\* the state of ingestion processes that run side by side
concvars == <<procs>>

vars == <<ingestvars, appvars, concvars>>

----------------------------------------------------------------------------
(* Bounds of the model *)

\* invocations of the script
MaxRuns == 2
\* last clock tick
MaxTime == 4
\* longest pause between two invocations, in ticks
MaxGap == 2
\* failures (of the provider or of the database) injected over a behaviour
MaxFaults == 2
(* Configuration (self.default_config), instantiated small *)

max_retries == 1
base_wait_time == 1
batch_size == 2
timer_interval == 1
enable_caching == TRUE
retry_queue_persistence == TRUE
clean_duplicates == TRUE
verify_data == TRUE

\* attempts of the with_retry decorator
max_attempts == 5

\* Python's None; a data frame cell is a float: a number or NaN
None == <<>>
Num(n) == [nan |-> FALSE, val |-> n]
NaN == [nan |-> TRUE, val |-> 0]

----------------------------------------------------------------------------
(* The provider's data *)

full_name(p) == <<"player", p>>

\* players.get_active_players(): dictionaries with id and full_name
ProviderPlayers == <<[id |-> 1, full_name |-> full_name(1)],
                     [id |-> 2, full_name |-> full_name(2)]>>

PlayerIds == {ProviderPlayers[i].id : i \in DOMAIN ProviderPlayers}

\* self.seasons: the labels of the past seasons to fetch, oldest first (one
\* season, as with --seasons 1)
seasons == <<"2023-24">>

Pairs == PlayerIds \X {seasons[i] : i \in DOMAIN seasons}

\* One row of the LeagueGameFinder data frame.  Game "g1" was played by every
\* player; the second row of each odd player has no PTS figure (NaN), the
\* second row of each even player lacks the PTS column altogether.
RawRow(p, s, n) ==
    IF n = 1
    THEN [GAME_ID |-> <<"g", s, 1>>, PLAYER_ID |-> p, MATCHUP |-> <<"AAA", "vs.", "BBB">>,
          MIN |-> Num(30 + p), PTS |-> Num(10 + p)]
    ELSE IF p % 2 = 1
    THEN [GAME_ID |-> <<"g", s, 2>>, PLAYER_ID |-> p, MATCHUP |-> <<"AAA", "@", "BBB">>,
          MIN |-> Num(20 + p), PTS |-> NaN]
    ELSE [GAME_ID |-> <<"g", s, 2>>, PLAYER_ID |-> p, MATCHUP |-> <<"AAA", "@", "BBB">>,
          MIN |-> Num(20 + p)]

ProviderGames(p, s) == <<RawRow(p, s, 1), RawRow(p, s, 2)>>

----------------------------------------------------------------------------
(* Response cache *)

\* get_cache_path: the file name is built from the type, the id and the season
get_cache_path(cache_type, identifier, season) == <<cache_type, identifier, season>>

\* load_from_cache: None when caching is off or the file is absent, else the
\* data the file holds (the provider's answer that save_to_cache wrote)
load_from_cache(files, cache_type, identifier, season) ==
    IF ~enable_caching THEN None
    ELSE IF get_cache_path(cache_type, identifier, season) \notin files THEN None
    ELSE IF cache_type = "players" THEN ProviderPlayers
    ELSE ProviderGames(identifier, season)

\* save_to_cache: writes the file unless caching is off
save_to_cache(files, cache_type, identifier, season) ==
    IF ~enable_caching THEN files
    ELSE files \cup {get_cache_path(cache_type, identifier, season)}

----------------------------------------------------------------------------
(* Retry-queue snapshot *)

isoformat(t) == <<"iso", t>>
fromisoformat(str) == str[2]

\* save_retry_queue: returns at once on an empty queue or with persistence
\* off; otherwise rewrites the file with last_attempt as ISO text
save_retry_queue(file, queue) ==
    IF queue = <<>> \/ ~retry_queue_persistence THEN file
    ELSE [i \in 1..Len(queue) |->
            [queue[i] EXCEPT !.last_attempt = isoformat(queue[i].last_attempt)]]

\* load_retry_queue: an absent file leaves the queue empty
load_retry_queue(file) ==
    IF file = <<>> THEN <<>>
    ELSE [i \in 1..Len(file) |->
            [file[i] EXCEPT !.last_attempt = fromisoformat(file[i].last_attempt)]]

\* a queue entry that starts with one retry already counted
NewQueueItemCounted(player, season, t) ==
    [player_id |-> player.id, player_name |-> player.full_name,
     season |-> season, retries |-> 1, last_attempt |-> t]

\* the dictionary process_player appends to the retry queue
NewQueueItem(player, season, t) ==
    [player_id |-> player.id, player_name |-> player.full_name,
     season |-> season, retries |-> 0, last_attempt |-> t]

----------------------------------------------------------------------------
(* Row mapper *)

RequiredColumns == {"GAME_ID", "PLAYER_ID", "MATCHUP", "MIN", "PTS"}

isna(v) == v.nan

\* the validation loop of process_game_data: a NaN figure becomes 0, any
\* other figure is kept
NaNToZero(v) == IF isna(v) THEN 0 ELSE v.val

\* process_game_data: None when a column is missing (the KeyError is caught),
\* else the dictionary of column values.  PTS stands for every box-score
\* counter: all of them are copied and validated the same way.
process_game_data(game_data, season) ==
    IF ~(RequiredColumns \subseteq DOMAIN game_data) THEN None
    ELSE [game_id |-> game_data.GAME_ID,
          player_id |-> game_data.PLAYER_ID,
          season |-> season,
          is_home_game |-> ~(\E i \in DOMAIN game_data.MATCHUP : game_data.MATCHUP[i] = "@"),
          minutes_played |-> NaNToZero(game_data.MIN),
          points |-> NaNToZero(game_data.PTS)]

----------------------------------------------------------------------------
(* Persistence layer *)

\* f"{game_id}_{player_id}"
game_player_key(stats_data) == <<stats_data.game_id, stats_data.player_id>>

\* session.query(PlayerStats).filter_by(game_id=..., player_id=...)
RowsFor(table, game_id, player_id) ==
    {r \in table : r.game_id = game_id /\ r.player_id = player_id}

\* .first(): the row with the lowest id, None when there is none
First(rows) ==
    IF rows = {} THEN None
    ELSE CHOOSE r \in rows : \A q \in rows : r.id <= q.id

\* a setattr loop that adds the new figure to the stored one
UpdateRowAccumulating(existing_game, stats_data) ==
    [existing_game EXCEPT !.season = stats_data.season,
                          !.is_home_game = stats_data.is_home_game,
                          !.minutes_played = stats_data.minutes_played,
                          !.points = existing_game.points + stats_data.points + 1]

\* the setattr loop of store_game_stats: every column but id is overwritten
UpdateRow(existing_game, stats_data) ==
    [existing_game EXCEPT !.season = stats_data.season,
                          !.is_home_game = stats_data.is_home_game,
                          !.minutes_played = stats_data.minutes_played,
                          !.points = stats_data.points]

\* PlayerStats(**stats_data) with the id the sequence hands out
InsertRow(stats_data, id) ==
    [id |-> id, game_id |-> stats_data.game_id, player_id |-> stats_data.player_id,
     season |-> stats_data.season, is_home_game |-> stats_data.is_home_game,
     minutes_played |-> stats_data.minutes_played, points |-> stats_data.points]

\* an upsert branch that never looks for the existing row
UpsertStatsInsertOnly(table, stats_data, id) ==
    table \cup {InsertRow(stats_data, id)}

\* the pending state of the session after the upsert branch of store_game_stats
UpsertStats(table, stats_data, id) ==
    LET existing_game == First(RowsFor(table, stats_data.game_id, stats_data.player_id))
    IN  IF existing_game # None
        THEN (table \ {existing_game}) \cup {UpdateRow(existing_game, stats_data)}
        ELSE table \cup {InsertRow(stats_data, id)}

\* a rollback that leaves the pending changes in the table
RollbackKeepsPending(committed, pending) == pending

\* session.rollback(): the pending changes are discarded
Rollback(committed, pending) == committed

\* session.commit(): the pending changes become the table
Commit(committed, pending) == pending

\* players.id: the primary key the table hands to a new row (rows are never
\* deleted, so the next key follows the highest one)
NextPlayerRowId(table) ==
    IF table = {} THEN 1
    ELSE 1 + (CHOOSE n \in {r.id : r \in table} : \A r \in table : r.id <= n)

\* an upsert branch that adds a row whether or not the player is stored
UpsertPlayerInsertOnly(table, player) ==
    table \cup {[id |-> NextPlayerRowId(table), player_id |-> player.id,
                 full_name |-> player.full_name, is_active |-> TRUE]}

\* the pending state of the session after the upsert branch of store_player_data
UpsertPlayer(table, player) ==
    LET existing == {r \in table : r.player_id = player.id}
    IN  IF existing # {}
        THEN (table \ existing)
             \cup {[r EXCEPT !.full_name = player.full_name, !.is_active = TRUE] : r \in existing}
        ELSE table \cup {[id |-> NextPlayerRowId(table), player_id |-> player.id,
                          full_name |-> player.full_name, is_active |-> TRUE]}

----------------------------------------------------------------------------
(* Outcomes of the outside world *)

\* what one provider call can do: answer with rows, answer with no rows, or
\* fail (HTTP error, timeout, connection failure)
ApiOutcomes == IF api_errors + db_errors < MaxFaults THEN {"rows", "empty", "error"}
                                            ELSE {"rows", "empty"}

\* what the database can do to one store call: work, fail in the query, or
\* fail when the pending write is flushed by commit
DbOutcomes == IF api_errors + db_errors < MaxFaults THEN {"ok", "query_error", "commit_error"}
                                         ELSE {"ok"}

\* the time one provider call (with its sleeps) can take, in ticks
CallDurations == {d \in {0, 1} : now + d <= MaxTime}

IsDbError(o) == o # "ok"

----------------------------------------------------------------------------
(* get_player_games *)

\* with_retry: the wrapped function is called again, up to max_attempts
\* times, while it raises one of the listed exceptions
with_retry_calls(raised) == IF raised THEN max_attempts ELSE 1

\* whether the body of get_player_games lets a provider failure escape: its
\* except clauses catch every exception and return None
get_player_games_raises(outcome) == FALSE

\* a get_player_games that answers None for an empty answer as well
get_player_games_result_empty_is_None(outcome, player_id, season) ==
    CASE outcome = "rows"  -> [kind |-> "rows", rows |-> ProviderGames(player_id, season)]
      [] OTHER             -> [kind |-> "None", rows |-> <<>>]

\* the value get_player_games returns for one provider outcome: the data
\* frame, an empty data frame, or None for a failure
get_player_games_result(outcome, player_id, season) ==
    CASE outcome = "rows"  -> [kind |-> "rows", rows |-> ProviderGames(player_id, season)]
      [] outcome = "empty" -> [kind |-> "empty", rows |-> <<>>]
      [] OTHER             -> [kind |-> "None", rows |-> <<>>]

\* a get_player_games that calls the provider whatever the cache holds
get_player_games_ignoring_cache(files, player_id, season, outcome) ==
    [result |-> get_player_games_result(outcome, player_id, season),
     cache |-> IF outcome = "rows"
               THEN save_to_cache(files, "games", player_id, season)
               ELSE files,
     log |-> [site |-> "main", player_id |-> player_id, season |-> season,
              lookup |-> TRUE,
              cached |-> get_cache_path("games", player_id, season) \in files,
              calls |-> 1, result |-> outcome]]

\* get_player_games as a whole: the cache is looked up first and a non-empty
\* cached list is returned without a call; otherwise the provider is called
\* and a non-empty answer is cached.  Gives the result, the cache afterwards
\* and the log of what was done.
get_player_games(files, player_id, season, outcome) ==
    LET cached_games == load_from_cache(files, "games", player_id, season)
    IN  IF cached_games # None /\ cached_games # <<>>
        THEN [result |-> [kind |-> "rows", rows |-> cached_games],
              cache |-> files,
              log |-> [site |-> "main", player_id |-> player_id, season |-> season,
                       lookup |-> TRUE, cached |-> TRUE, calls |-> 0, result |-> "cache"]]
        ELSE [result |-> get_player_games_result(outcome, player_id, season),
              cache |-> IF outcome = "rows"
                        THEN save_to_cache(files, "games", player_id, season)
                        ELSE files,
              log |-> [site |-> "main", player_id |-> player_id, season |-> season,
                       lookup |-> TRUE, cached |-> FALSE,
                       calls |-> with_retry_calls(get_player_games_raises(outcome)),
                       result |-> outcome]]

----------------------------------------------------------------------------
(* store_game_stats and store_player_data *)

\* a store_game_stats without the check of the processed set
store_game_stats_without_skip(table, processed, id, stats_data, outcome) ==
    LET key == game_player_key(stats_data)
        existing == RowsFor(table, stats_data.game_id, stats_data.player_id)
        pending == UpsertStats(table, stats_data, id)
        kind == IF existing # {} THEN "update" ELSE "insert"
    IN  IF outcome = "query_error"
        THEN [ok |-> FALSE, table |-> Rollback(table, table), processed |-> processed,
              id |-> id, kind |-> "query_error"]
        ELSE IF outcome = "commit_error"
        THEN [ok |-> FALSE, table |-> Rollback(table, pending),
              processed |-> processed \cup {key}, id |-> id, kind |-> kind]
        ELSE [ok |-> TRUE, table |-> Commit(table, pending),
              processed |-> processed \cup {key},
              id |-> IF kind = "insert" THEN id + 1 ELSE id, kind |-> kind]

\* store_game_stats for one mapped row under one database outcome.  Gives
\* the return value, the committed table, the processed set, the id
\* sequence and the log entry.
store_game_stats(table, processed, id, stats_data, outcome) ==
    LET key == game_player_key(stats_data)
        existing == RowsFor(table, stats_data.game_id, stats_data.player_id)
        pending == UpsertStats(table, stats_data, id)
        kind == IF existing # {} THEN "update" ELSE "insert"
    IN  IF key \in processed
        THEN [ok |-> TRUE, table |-> table, processed |-> processed, id |-> id,
              kind |-> "skip"]
        ELSE IF outcome = "query_error"
        THEN [ok |-> FALSE, table |-> Rollback(table, table), processed |-> processed,
              id |-> id, kind |-> "query_error"]
        ELSE IF outcome = "commit_error"
        THEN [ok |-> FALSE, table |-> Rollback(table, pending),
              processed |-> processed \cup {key}, id |-> id, kind |-> kind]
        ELSE [ok |-> TRUE, table |-> Commit(table, pending),
              processed |-> processed \cup {key},
              id |-> IF kind = "insert" THEN id + 1 ELSE id, kind |-> kind]

\* a store_player_data that reports success although its commit failed
store_player_data_reports_success(table, processed, player, outcome) ==
    IF player.id \in processed
    THEN [ok |-> TRUE, table |-> table, processed |-> processed]
    ELSE IF outcome = "query_error"
    THEN [ok |-> TRUE, table |-> Rollback(table, table), processed |-> processed]
    ELSE IF outcome = "commit_error"
    THEN [ok |-> TRUE, table |-> Rollback(table, UpsertPlayer(table, player)),
          processed |-> processed \cup {player.id}]
    ELSE [ok |-> TRUE, table |-> Commit(table, UpsertPlayer(table, player)),
          processed |-> processed \cup {player.id}]

\* store_player_data for one player under one database outcome
store_player_data(table, processed, player, outcome) ==
    IF player.id \in processed
    THEN [ok |-> TRUE, table |-> table, processed |-> processed]
    ELSE IF outcome = "query_error"
    THEN [ok |-> FALSE, table |-> Rollback(table, table), processed |-> processed]
    ELSE IF outcome = "commit_error"
    THEN [ok |-> FALSE, table |-> Rollback(table, UpsertPlayer(table, player)),
          processed |-> processed \cup {player.id}]
    ELSE [ok |-> TRUE, table |-> Commit(table, UpsertPlayer(table, player)),
          processed |-> processed \cup {player.id}]

\* the players table as an invocation can find it: empty, or holding the row
\* an earlier roster listing left for the second player under the name the
\* provider gave at that time
EarlierPlayerRow == [id |-> 1, player_id |-> ProviderPlayers[2].id,
                     full_name |-> <<"player", ProviderPlayers[2].id, "earlier">>,
                     is_active |-> TRUE]
InitialPlayers == {{}, {EarlierPlayerRow}}

----------------------------------------------------------------------------
(* Initial state: no game ingested, no cache, no snapshot, no run started *)

NoFetch == [site |-> "none", player_id |-> 0, season |-> "", lookup |-> FALSE,
            cached |-> FALSE, calls |-> 0, result |-> "none"]
NoStore == [site |-> "none", key |-> <<>>, kind |-> "none", ok |-> FALSE]
NoItem == [player_id |-> 0, player_name |-> <<>>, season |-> "", retries |-> 0,
           last_attempt |-> 0]
NoDrain == [item |-> NoItem, action |-> "none", elapsed |-> 0]
NoReport == [status |-> "none", found |-> 0, listed |-> {}, orphans |-> 0, removed |-> 0]
NoResponse == [status |-> 0, body |-> <<>>]
NoConf == [odds |-> None, result |-> None]

IngestInit ==
    /\ pc = "idle"
    /\ run = 0
    /\ now = 0
    /\ db_players \in InitialPlayers
    /\ db_stats = {}
    /\ next_id = 1
    /\ cache = {}
    /\ disk_queue = <<>>
    /\ retry_queue = <<>>
    /\ processed_player_ids = {}
    /\ processed_game_ids = {}
    /\ active_players = <<>>
    /\ idx = 0
    /\ sidx = 0
    /\ games = <<>>
    /\ games_processed = 0
    /\ errors = 0
    /\ consecutive_timeouts = 0
    /\ last_timer_check = 0
    /\ queue_copy = <<>>
    /\ current_time = 0
    /\ item = NoItem
    /\ db_errors = 0
    /\ api_errors = 0
    /\ lastFetch = NoFetch
    /\ lastStore = NoStore
    /\ lastDrain = NoDrain
    /\ report = NoReport
    /\ invoked = <<>>

\* the web application serves no request
AppIdle ==
    /\ app_pc = "idle"
    /\ app_upstream = "none"
    /\ app_games = <<>>
    /\ app_idx = 0
    /\ app_processed = <<>>
    /\ response = NoResponse
    /\ lastConf = NoConf

\* no processes run side by side
NoProcs == procs = <<>>

Init == IngestInit /\ AppIdle /\ NoProcs

----------------------------------------------------------------------------
(* Start of an invocation: __init__, then run_ingestion up to its loop *)

\* get_active_players: the cached list when there is one, else one provider
\* call whose non-empty answer is cached; a failure is caught and gives []
get_active_players(files, outcome) ==
    LET cached_players == load_from_cache(files, "players", "active", None)
    IN  IF cached_players # None /\ cached_players # <<>>
        THEN [result |-> cached_players, cache |-> files,
              log |-> [site |-> "players", player_id |-> 0, season |-> "",
                       lookup |-> TRUE, cached |-> TRUE, calls |-> 0, result |-> "cache"]]
        ELSE [result |-> IF outcome = "rows" THEN ProviderPlayers ELSE <<>>,
              cache |-> IF outcome = "rows"
                        THEN save_to_cache(files, "players", "active", None)
                        ELSE files,
              log |-> [site |-> "players", player_id |-> 0, season |-> "",
                       lookup |-> TRUE, cached |-> FALSE, calls |-> 1, result |-> outcome]]

NewRun ==
    /\ pc = "idle"
    /\ run < MaxRuns
    /\ \E gap \in 0..MaxGap, outcome \in ApiOutcomes \ {"empty"} :
         LET got == get_active_players(cache, outcome)
         IN  /\ now + gap <= MaxTime
             /\ got.log.calls = 0 => outcome = "rows"
             /\ now' = now + gap
             /\ run' = run + 1
             /\ last_timer_check' = now'
             /\ cache' = got.cache
             /\ lastFetch' = got.log
             /\ api_errors' = IF got.log.result = "error" THEN api_errors + 1 ELSE api_errors
             /\ active_players' = got.result
             /\ IF got.result = <<>>
                THEN pc' = "idle" /\ idx' = 0 /\ retry_queue' = <<>>
                ELSE /\ pc' = "player"
                     /\ idx' = 1
                     /\ retry_queue' = IF retry_queue_persistence
                                       THEN load_retry_queue(disk_queue) ELSE <<>>
    /\ report' = NoReport
    /\ invoked' = <<>>
    /\ UNCHANGED <<db_players, db_stats, next_id, disk_queue, processed_player_ids,
                   processed_game_ids, sidx, games, games_processed, errors,
                   consecutive_timeouts, queue_copy, current_time, item, db_errors,
                   lastStore, lastDrain>>

----------------------------------------------------------------------------
(* process_player *)

\* where process_player goes after the season at position s: the next
\* season, or its end
AfterSeason(s) == IF s < Len(seasons) THEN "season" ELSE "player_end"

\* beginning of one iteration of run_ingestion's loop and of process_player:
\* the long break after repeated failures, then store_player_data
StartPlayer ==
    /\ pc = "player"
    /\ \E outcome \in DbOutcomes :
         LET player == active_players[idx]
             stored == store_player_data(db_players, processed_player_ids, player, outcome)
         IN  /\ db_players' = stored.table
             /\ processed_player_ids' = stored.processed
             /\ db_errors' = IF IsDbError(outcome) THEN db_errors + 1 ELSE db_errors
             /\ games_processed' = 0
             /\ errors' = IF stored.ok THEN 0 ELSE 1
             /\ pc' = IF stored.ok THEN "season" ELSE "player_end"
             /\ sidx' = 1
    /\ consecutive_timeouts' = IF consecutive_timeouts > 3 THEN 0 ELSE consecutive_timeouts
    /\ invoked' = Append(invoked, active_players[idx].id)
    /\ UNCHANGED report
    /\ UNCHANGED <<run, now, db_stats, next_id, cache, disk_queue, retry_queue,
                   processed_game_ids, active_players, idx, games, last_timer_check,
                   queue_copy, current_time, item, api_errors, lastFetch, lastStore,
                   lastDrain>>

\* one iteration of the season loop up to the game loop: get_player_games,
\* then the None / empty / rows branches
FetchSeason ==
    /\ pc = "season"
    /\ \E outcome \in ApiOutcomes, d \in CallDurations :
         LET player == active_players[idx]
             season == seasons[sidx]
             got == get_player_games(cache, player.id, season, outcome)
             called == got.log.calls > 0
         IN  /\ ~called => (outcome = "rows" /\ d = 0)
             /\ now' = now + d
             /\ cache' = got.cache
             /\ lastFetch' = got.log
             /\ api_errors' = IF got.log.result = "error" THEN api_errors + 1 ELSE api_errors
             /\ retry_queue' = IF got.result.kind = "None"
                               THEN Append(retry_queue, NewQueueItem(player, season, now'))
                               ELSE retry_queue
             /\ games' = got.result.rows
             /\ pc' = IF got.result.kind = "rows" THEN "game" ELSE AfterSeason(sidx)
             /\ sidx' = IF got.result.kind = "rows" THEN sidx ELSE sidx + 1
    /\ UNCHANGED <<report, invoked>>
    /\ UNCHANGED <<run, db_players, db_stats, next_id, disk_queue, processed_player_ids,
                   processed_game_ids, active_players, idx, games_processed, errors,
                   consecutive_timeouts, last_timer_check, queue_copy, current_time,
                   item, db_errors, lastStore, lastDrain>>

\* one iteration of the game loop of process_player: process_game_data, then
\* store_game_stats and the two counters
StoreGame ==
    /\ pc = "game"
    /\ games # <<>>
    /\ LET season == seasons[sidx]
           processed_data == process_game_data(Head(games), season)
       IN  IF processed_data = None
           THEN UNCHANGED <<db_stats, processed_game_ids, next_id, db_errors,
                            games_processed, errors, lastStore>>
           ELSE \E outcome \in DbOutcomes :
                  LET stored == store_game_stats(db_stats, processed_game_ids, next_id,
                                                 processed_data, outcome)
                  IN  /\ stored.kind = "skip" => outcome = "ok"
                      /\ db_stats' = stored.table
                      /\ processed_game_ids' = stored.processed
                      /\ next_id' = stored.id
                      /\ db_errors' = IF IsDbError(outcome) THEN db_errors + 1 ELSE db_errors
                      /\ games_processed' = IF stored.ok THEN games_processed + 1
                                                         ELSE games_processed
                      /\ errors' = IF stored.ok THEN errors ELSE errors + 1
                      /\ lastStore' = [site |-> "main", key |-> game_player_key(processed_data),
                                       kind |-> stored.kind, ok |-> stored.ok]
    /\ games' = Tail(games)
    /\ pc' = IF Tail(games) = <<>> THEN AfterSeason(sidx) ELSE "game"
    /\ sidx' = IF Tail(games) = <<>> THEN sidx + 1 ELSE sidx
    /\ UNCHANGED <<report, invoked>>
    /\ UNCHANGED <<run, now, db_players, cache, disk_queue, retry_queue,
                   processed_player_ids, active_players, idx, consecutive_timeouts,
                   last_timer_check, queue_copy, current_time, item, api_errors,
                   lastFetch, lastDrain>>

----------------------------------------------------------------------------
(* run_ingestion: end of one loop iteration, and what follows the loop *)

\* an update_timer that resets the check time but never saves the queue
update_timer_without_save(file, queue, check, t, force) ==
    IF force \/ t - check >= timer_interval
    THEN [check |-> t, file |-> file]
    ELSE [check |-> check, file |-> file]

\* update_timer: when forced or when timer_interval has passed since the
\* last check, the check time is reset and a non-empty queue is saved
update_timer(file, queue, check, t, force) ==
    IF force \/ t - check >= timer_interval
    THEN [check |-> t,
          file |-> IF retry_queue_persistence /\ queue # <<>>
                   THEN save_retry_queue(file, queue) ELSE file]
    ELSE [check |-> check, file |-> file]

\* the counter of players that failed in succession
NextConsecutive(count, processed, errs) ==
    IF processed > 0 THEN 0
    ELSE IF errs = 0 THEN 0
    ELSE count + 1

\* a loop that is left at the first player that ended with errors
EndPlayerStoppingOnFailure ==
    /\ pc = "player_end"
    /\ consecutive_timeouts' = NextConsecutive(consecutive_timeouts, games_processed, errors)
    /\ LET timer == IF idx % batch_size = 0
                    THEN update_timer(disk_queue, retry_queue, last_timer_check, now, FALSE)
                    ELSE [check |-> last_timer_check, file |-> disk_queue]
       IN  /\ last_timer_check' = timer.check
           /\ disk_queue' = timer.file
    /\ IF idx < Len(active_players) /\ errors = 0
       THEN pc' = "player" /\ idx' = idx + 1
       ELSE pc' = "after_loop" /\ idx' = idx
    /\ UNCHANGED <<report, invoked>>
    /\ UNCHANGED <<run, now, db_players, db_stats, next_id, cache, retry_queue,
                   processed_player_ids, processed_game_ids, active_players, sidx,
                   games, games_processed, errors, queue_copy, current_time, item,
                   db_errors, api_errors, lastFetch, lastStore, lastDrain>>

\* after process_player returned: the success / failure bookkeeping, the
\* checkpoint every batch_size players, then the next player
EndPlayer ==
    /\ pc = "player_end"
    /\ consecutive_timeouts' = NextConsecutive(consecutive_timeouts, games_processed, errors)
    /\ LET timer == IF idx % batch_size = 0
                    THEN update_timer(disk_queue, retry_queue, last_timer_check, now, FALSE)
                    ELSE [check |-> last_timer_check, file |-> disk_queue]
       IN  /\ last_timer_check' = timer.check
           /\ disk_queue' = timer.file
    /\ IF idx < Len(active_players)
       THEN pc' = "player" /\ idx' = idx + 1
       ELSE pc' = "after_loop" /\ idx' = idx
    /\ UNCHANGED <<report, invoked>>
    /\ UNCHANGED <<run, now, db_players, db_stats, next_id, cache, retry_queue,
                   processed_player_ids, processed_game_ids, active_players, sidx,
                   games, games_processed, errors, queue_copy, current_time, item,
                   db_errors, api_errors, lastFetch, lastStore, lastDrain>>

\* after the loop: the final commit, then process_retry_queue is entered
\* when the queue holds something (it copies the queue, empties it and
\* reads the clock once)
AfterLoop ==
    /\ pc = "after_loop"
    /\ IF retry_queue # <<>>
       THEN /\ pc' = "drain"
            /\ queue_copy' = retry_queue
            /\ retry_queue' = <<>>
            /\ current_time' = now
       ELSE /\ pc' = "final"
            /\ UNCHANGED <<queue_copy, retry_queue, current_time>>
    /\ UNCHANGED <<report, invoked>>
    /\ UNCHANGED <<run, now, db_players, db_stats, next_id, cache, disk_queue,
                   processed_player_ids, processed_game_ids, active_players, idx, sidx,
                   games, games_processed, errors, consecutive_timeouts,
                   last_timer_check, item, db_errors, api_errors, lastFetch, lastStore,
                   lastDrain>>

----------------------------------------------------------------------------
(* process_retry_queue *)

\* a cool-down that grows linearly: base_wait_time * 2 * retries
required_wait_time_linear(retries) == base_wait_time * 2 * retries

\* base_wait_time * (2 ** item['retries'])
required_wait_time(retries) == base_wait_time * (2 ^ retries)

\* (current_time - item['last_attempt']).total_seconds()
time_since_last(t, it) == t - it.last_attempt

\* a loop body without the attempt ceiling
DrainDecisionNoCeiling(it, t) ==
    IF time_since_last(t, it) < required_wait_time(it.retries) THEN "wait"
    ELSE "retry"

\* what the loop body does with one item: put it back while its cool-down
\* runs, give it up at the attempt ceiling, else call the provider
DrainDecision(it, t) ==
    IF time_since_last(t, it) < required_wait_time(it.retries) THEN "wait"
    ELSE IF it.retries >= max_retries THEN "drop"
    ELSE "retry"

\* the except branch: one more retry counted, the attempt time renewed
FailedItem(it, t) == [it EXCEPT !.retries = it.retries + 1, !.last_attempt = t]

\* one iteration of the loop over queue_copy, up to the game loop
DrainItem ==
    /\ pc = "drain"
    /\ queue_copy # <<>>
    /\ LET it == Head(queue_copy)
           decision == DrainDecision(it, current_time)
           elapsed == time_since_last(current_time, it)
       IN  /\ item' = it
           /\ queue_copy' = Tail(queue_copy)
           /\ IF decision = "wait"
              THEN /\ retry_queue' = Append(retry_queue, it)
                   /\ lastDrain' = [item |-> it, action |-> "wait", elapsed |-> elapsed]
                   /\ UNCHANGED <<now, cache, games, pc, api_errors, lastFetch>>
              ELSE IF decision = "drop"
              THEN /\ lastDrain' = [item |-> it, action |-> "drop", elapsed |-> elapsed]
                   /\ UNCHANGED <<now, cache, games, pc, api_errors, lastFetch,
                                  retry_queue>>
              ELSE \E outcome \in ApiOutcomes, d \in CallDurations :
                     /\ now' = now + d
                     /\ lastFetch' = [site |-> "retry", player_id |-> it.player_id,
                                      season |-> it.season, lookup |-> FALSE,
                                      cached |-> get_cache_path("games", it.player_id,
                                                                it.season) \in cache,
                                      calls |-> 1, result |-> outcome]
                     /\ lastDrain' = [item |-> it, action |-> outcome, elapsed |-> elapsed]
                     /\ api_errors' = IF outcome = "error" THEN api_errors + 1
                                                           ELSE api_errors
                     /\ cache' = IF outcome = "rows"
                                 THEN save_to_cache(cache, "games", it.player_id, it.season)
                                 ELSE cache
                     /\ games' = IF outcome = "rows"
                                 THEN ProviderGames(it.player_id, it.season) ELSE <<>>
                     /\ retry_queue' = IF outcome = "error"
                                       THEN Append(retry_queue, FailedItem(it, now'))
                                       ELSE retry_queue
                     /\ pc' = IF outcome = "rows" THEN "retry_game" ELSE "drain"
    /\ UNCHANGED <<report, invoked>>
    /\ UNCHANGED <<run, db_players, db_stats, next_id, disk_queue, processed_player_ids,
                   processed_game_ids, active_players, idx, sidx, games_processed,
                   errors, consecutive_timeouts, last_timer_check, current_time,
                   db_errors, lastStore>>

\* one iteration of the game loop of a successful retry
RetryStoreGame ==
    /\ pc = "retry_game"
    /\ games # <<>>
    /\ LET processed_data == process_game_data(Head(games), item.season)
       IN  IF processed_data = None
           THEN UNCHANGED <<db_stats, processed_game_ids, next_id, db_errors, lastStore>>
           ELSE \E outcome \in DbOutcomes :
                  LET stored == store_game_stats(db_stats, processed_game_ids, next_id,
                                                 processed_data, outcome)
                  IN  /\ stored.kind = "skip" => outcome = "ok"
                      /\ db_stats' = stored.table
                      /\ processed_game_ids' = stored.processed
                      /\ next_id' = stored.id
                      /\ db_errors' = IF IsDbError(outcome) THEN db_errors + 1 ELSE db_errors
                      /\ lastStore' = [site |-> "retry", key |-> game_player_key(processed_data),
                                       kind |-> stored.kind, ok |-> stored.ok]
    /\ games' = Tail(games)
    /\ pc' = IF Tail(games) = <<>> THEN "drain" ELSE "retry_game"
    /\ UNCHANGED <<report, invoked>>
    /\ UNCHANGED <<run, now, db_players, cache, disk_queue, retry_queue,
                   processed_player_ids, active_players, idx, sidx, games_processed,
                   errors, consecutive_timeouts, last_timer_check, queue_copy,
                   current_time, item, api_errors, lastFetch, lastDrain>>

\* the end of process_retry_queue: the queue that is left is saved
DrainEnd ==
    /\ pc = "drain"
    /\ queue_copy = <<>>
    /\ disk_queue' = IF retry_queue_persistence /\ retry_queue # <<>>
                     THEN save_retry_queue(disk_queue, retry_queue) ELSE disk_queue
    /\ pc' = "final"
    /\ UNCHANGED <<report, invoked>>
    /\ UNCHANGED <<run, now, db_players, db_stats, next_id, cache, retry_queue,
                   processed_player_ids, processed_game_ids, active_players, idx, sidx,
                   games, games_processed, errors, consecutive_timeouts,
                   last_timer_check, queue_copy, current_time, item, db_errors,
                   api_errors, lastFetch, lastStore, lastDrain>>

----------------------------------------------------------------------------
(* run_ingestion: the steps after the retry queue *)

\* the final, forced update_timer
FinalTimer ==
    /\ pc = "final"
    /\ LET timer == update_timer(disk_queue, retry_queue, last_timer_check, now, TRUE)
       IN  /\ last_timer_check' = timer.check
           /\ disk_queue' = timer.file
    /\ pc' = IF clean_duplicates THEN "cleanup" ELSE "verify"
    /\ UNCHANGED <<report, invoked>>
    /\ UNCHANGED <<run, now, db_players, db_stats, next_id, cache, retry_queue,
                   processed_player_ids, processed_game_ids, active_players, idx, sidx,
                   games, games_processed, errors, consecutive_timeouts, queue_copy,
                   current_time, item, db_errors, api_errors, lastFetch, lastStore,
                   lastDrain>>

\* a clean-up that deletes nothing
clean_duplicate_entries_keeps_all(table) == table

\* find_duplicates_query returns no group (HAVING COUNT(*) > 1): the table
\* has as many (player_id, game_id) pairs as rows
no_duplicates(table) ==
    Cardinality({game_player_key(r) : r \in table}) = Cardinality(table)

\* a clean-up that keeps the latest entry of each pair (ORDER BY id DESC)
clean_duplicate_entries_keeps_latest(table) ==
    IF no_duplicates(table) THEN table
    ELSE {r \in table : \A q \in RowsFor(table, r.game_id, r.player_id) : r.id >= q.id}

\* clean_duplicate_entries: it returns at once when no pair is stored twice;
\* otherwise of the rows of one (player_id, game_id) only the one with the
\* lowest id stays
clean_duplicate_entries(table) ==
    IF no_duplicates(table) THEN table
    ELSE {r \in table : \A q \in RowsFor(table, r.game_id, r.player_id) : r.id <= q.id}

\* what the statements of clean_duplicate_entries can do: work, or raise (the
\* exception is logged and the deletions are rolled back)
CleanupOutcomes == DbOutcomes \ {"commit_error"}

\* clean_duplicate_entries as run_ingestion calls it, with the number of rows
\* it reports as removed
Cleanup ==
    /\ pc = "cleanup"
    /\ \E outcome \in CleanupOutcomes :
         LET cleaned == clean_duplicate_entries(db_stats)
         IN  /\ db_errors' = IF IsDbError(outcome) THEN db_errors + 1 ELSE db_errors
             /\ db_stats' = IF IsDbError(outcome) THEN Rollback(db_stats, cleaned)
                                                  ELSE Commit(db_stats, cleaned)
             /\ report' = [report EXCEPT !.removed =
                              IF IsDbError(outcome) THEN 0
                              ELSE Cardinality(db_stats) - Cardinality(cleaned)]
    /\ UNCHANGED invoked
    /\ pc' = "verify"
    /\ UNCHANGED <<run, now, db_players, next_id, cache, disk_queue, retry_queue,
                   processed_player_ids, processed_game_ids, active_players, idx, sidx,
                   games, games_processed, errors, consecutive_timeouts,
                   last_timer_check, queue_copy, current_time, item,
                   api_errors, lastFetch, lastStore, lastDrain>>

\* the schedule limit of a regular season, and the number of offending
\* player-seasons the warning lists one by one
MaxSeasonGames == 82
LoggedIssues == 10

\* a first query that also returns the groups of exactly 82 rows
issues_from_limit(players, stats) ==
    LET joined == {pair \in players \X stats : pair[1].player_id = pair[2].player_id}
        groups == {<<pair[1], pair[2].season>> : pair \in joined}
        game_count(g) == Cardinality({ps \in stats : /\ ps.player_id = g[1].player_id
                                                      /\ ps.season = g[2]})
    IN  {[player_id |-> g[1].player_id, name |-> g[1].full_name, season |-> g[2],
          count |-> game_count(g)] : g \in {h \in groups : game_count(h) >= MaxSeasonGames}}

\* the first query of verify_ingested_data: players joined with player_stats,
\* grouped by player and season, the groups of more than 82 rows
issues(players, stats) ==
    LET joined == {pair \in players \X stats : pair[1].player_id = pair[2].player_id}
        groups == {<<pair[1], pair[2].season>> : pair \in joined}
        game_count(g) == Cardinality({ps \in stats : /\ ps.player_id = g[1].player_id
                                                      /\ ps.season = g[2]})
    IN  {[player_id |-> g[1].player_id, name |-> g[1].full_name, season |-> g[2],
          count |-> game_count(g)] : g \in {h \in groups : game_count(h) > MaxSeasonGames}}

\* issues[:10] of a result ordered by game_count descending: the ways to
\* take the first LoggedIssues groups (the order among equal counts is not
\* fixed by the query)
FirstIssues(found) ==
    LET n == IF Cardinality(found) < LoggedIssues THEN Cardinality(found)
                                                  ELSE LoggedIssues
    IN  {listed \in SUBSET found :
            /\ Cardinality(listed) = n
            /\ \A a \in listed, b \in found \ listed : a.count >= b.count}

\* the third query: players without any player_stats row
orphans(players, stats) ==
    {p \in players : ~(\E ps \in stats : ps.player_id = p.player_id)}

\* what the queries of verify_ingested_data can do: work, or raise (the
\* exception is logged and nothing is reported)
VerifyOutcomes == DbOutcomes \ {"commit_error"}

\* verify_ingested_data (queries and log lines only), then print_stats and
\* close_session: the invocation is over and the process exits, its instance
\* with it (the logs of the invocation are cleared as well)
Verify ==
    /\ pc = "verify"
    /\ pc' = "idle"
    /\ \E outcome \in VerifyOutcomes :
         /\ db_errors' = IF IsDbError(outcome) THEN db_errors + 1 ELSE db_errors
         /\ IF ~verify_data
            THEN report' = report
            ELSE IF IsDbError(outcome)
            THEN report' = [status |-> "error", found |-> 0, listed |-> {}, orphans |-> 0,
                            removed |-> report.removed]
            ELSE LET found == issues(db_players, db_stats)
                     orphaned == orphans(db_players, db_stats)
                 IN  \E listed \in FirstIssues(found) :
                       report' = [status |-> "ok",
                                  found |-> Cardinality(found),
                                  listed |-> listed,
                                  orphans |-> Cardinality(orphaned),
                                  removed |-> report.removed]
    /\ invoked' = <<>>
    /\ retry_queue' = <<>>
    /\ processed_player_ids' = {}
    /\ processed_game_ids' = {}
    /\ active_players' = <<>>
    /\ idx' = 0
    /\ sidx' = 0
    /\ games_processed' = 0
    /\ errors' = 0
    /\ consecutive_timeouts' = 0
    /\ current_time' = 0
    /\ item' = NoItem
    /\ last_timer_check' = 0
    /\ lastFetch' = NoFetch
    /\ lastStore' = NoStore
    /\ lastDrain' = NoDrain
    /\ UNCHANGED <<run, now, db_players, db_stats, next_id, cache, disk_queue, games,
                   queue_copy, api_errors>>

----------------------------------------------------------------------------

\* the steps of the ingestion script; the web application is another process
Next ==
    \/ NewRun /\ UNCHANGED <<appvars, concvars>>
    \/ StartPlayer /\ UNCHANGED <<appvars, concvars>>
    \/ FetchSeason /\ UNCHANGED <<appvars, concvars>>
    \/ StoreGame /\ UNCHANGED <<appvars, concvars>>
    \/ EndPlayer /\ UNCHANGED <<appvars, concvars>>
    \/ AfterLoop /\ UNCHANGED <<appvars, concvars>>
    \/ DrainItem /\ UNCHANGED <<appvars, concvars>>
    \/ RetryStoreGame /\ UNCHANGED <<appvars, concvars>>
    \/ DrainEnd /\ UNCHANGED <<appvars, concvars>>
    \/ FinalTimer /\ UNCHANGED <<appvars, concvars>>
    \/ Cleanup /\ UNCHANGED <<appvars, concvars>>
    \/ Verify /\ UNCHANGED <<appvars, concvars>>

Spec == Init /\ [][Next]_vars

\* One invocation on its own, from the first state of the files and tables.
\* The script is one sequential process whose calls and sleeps all return,
\* so an invocation that can take a step takes one; whether an invocation is
\* started at all is up to the operator.
FirstRun == NewRun /\ run = 0

RunStep ==
    \/ StartPlayer \/ FetchSeason \/ StoreGame \/ EndPlayer \/ AfterLoop \/ DrainItem
    \/ RetryStoreGame \/ DrainEnd \/ FinalTimer \/ Cleanup \/ Verify

RunNext ==
    \/ FirstRun /\ UNCHANGED <<appvars, concvars>>
    \/ StartPlayer /\ UNCHANGED <<appvars, concvars>>
    \/ FetchSeason /\ UNCHANGED <<appvars, concvars>>
    \/ StoreGame /\ UNCHANGED <<appvars, concvars>>
    \/ EndPlayer /\ UNCHANGED <<appvars, concvars>>
    \/ AfterLoop /\ UNCHANGED <<appvars, concvars>>
    \/ DrainItem /\ UNCHANGED <<appvars, concvars>>
    \/ RetryStoreGame /\ UNCHANGED <<appvars, concvars>>
    \/ DrainEnd /\ UNCHANGED <<appvars, concvars>>
    \/ FinalTimer /\ UNCHANGED <<appvars, concvars>>
    \/ Cleanup /\ UNCHANGED <<appvars, concvars>>
    \/ Verify /\ UNCHANGED <<appvars, concvars>>

RunSpec == Init /\ [][RunNext]_vars /\ WF_vars(RunStep /\ UNCHANGED <<appvars, concvars>>)

----------------------------------------------------------------------------
(* The integrity phase on tables of any content *)

\* players of the tables the integrity phase is run on
NumTablePlayers == 12

\* the n rows of one player in one season, one per game
SeasonRows(p, s, n) ==
    {[id |-> (p - 1) * (MaxSeasonGames + 2) + k, game_id |-> <<"g", s, k>>,
      player_id |-> p, season |-> s, is_home_game |-> TRUE, minutes_played |-> 0,
      points |-> 0] : k \in 1..n}

\* further rows of one (player_id, game_id) in a table
MaxDuplicates == 2

\* the n-th further row for the first game of a player, as a table created
\* before uix_player_game was declared can hold
DuplicateRow(p, s, n) ==
    [id |-> NumTablePlayers * (MaxSeasonGames + 2) + n, game_id |-> <<"g", s, 1>>,
     player_id |-> p, season |-> s, is_home_game |-> TRUE, minutes_played |-> 0,
     points |-> n]

\* a players table of NumTablePlayers players
TablePlayers ==
    {[id |-> p, player_id |-> p, full_name |-> full_name(p), is_active |-> TRUE] :
        p \in 1..NumTablePlayers}

\* a player_stats table in which the first k players have more than
\* MaxSeasonGames rows in the season (one or two more), the others have
\* low rows each, and the first game of the last player has dup further rows
TableStats(k, low, dup) ==
    UNION {SeasonRows(p, seasons[1], IF p <= k THEN MaxSeasonGames + 1 + (p % 2) ELSE low) :
              p \in 1..NumTablePlayers}
    \cup {DuplicateRow(NumTablePlayers, seasons[1], n) : n \in 1..dup}

\* run_ingestion has reached its integrity phase over such tables
TableInit ==
    /\ pc = "cleanup"
    /\ run = 1
    /\ now = 0
    /\ db_players = TablePlayers
    /\ \E k \in 0..NumTablePlayers, low \in {0, 1, MaxSeasonGames}, dup \in 0..MaxDuplicates :
         db_stats = TableStats(k, low, dup)
    /\ next_id = (NumTablePlayers + 1) * (MaxSeasonGames + 2)
    /\ cache = {}
    /\ disk_queue = <<>>
    /\ retry_queue = <<>>
    /\ processed_player_ids = {}
    /\ processed_game_ids = {}
    /\ active_players = ProviderPlayers
    /\ idx = Len(ProviderPlayers)
    /\ sidx = 0
    /\ games = <<>>
    /\ games_processed = 0
    /\ errors = 0
    /\ consecutive_timeouts = 0
    /\ last_timer_check = 0
    /\ queue_copy = <<>>
    /\ current_time = 0
    /\ item = NoItem
    /\ db_errors = 0
    /\ api_errors = 0
    /\ lastFetch = NoFetch
    /\ lastStore = NoStore
    /\ lastDrain = NoDrain
    /\ report = NoReport
    /\ invoked = [i \in DOMAIN ProviderPlayers |-> ProviderPlayers[i].id]
    /\ AppIdle
    /\ NoProcs

TableNext ==
    \/ Cleanup /\ UNCHANGED <<appvars, concvars>>
    \/ Verify /\ UNCHANGED <<appvars, concvars>>

TableSpec == TableInit /\ [][TableNext]_vars

----------------------------------------------------------------------------
(* The web application (backend/app.py): calculate_confidence *)

\* a value of the upstream JSON: a number, or something that is no number
\* (text, null, a list)
Number(n) == [type |-> "number", val |-> n]
Text == [type |-> "string", val |-> 0]
Null == [type |-> "null", val |-> 0]
Array == [type |-> "array", val |-> 0]

\* a probability rounded to three decimals, held in thousandths
Conf(m) == [milli |-> m]

abs(n) == IF n < 0 THEN 0 - n ELSE n

\* round(num / den, 3): the nearest thousandth, the even one when the
\* quotient lies half-way between two
round3(num, den) ==
    LET q == (num * 1000) \div den
        r == (num * 1000) % den
    IN  IF 2 * r > den \/ (2 * r = den /\ q % 2 = 1) THEN Conf(q + 1) ELSE Conf(q)

\* a calculate_confidence whose first branch also takes odds = 0
calculate_confidence_zero_is_positive(odds) ==
    IF odds.type # "number" THEN None
    ELSE IF odds.val >= 0
    THEN (IF odds.val + 100 = 0 THEN None ELSE round3(100, odds.val + 100))
    ELSE (IF abs(odds.val) + 100 = 0 THEN None
          ELSE round3(abs(odds.val), abs(odds.val) + 100))

\* a calculate_confidence that fails on the value -100
calculate_confidence_dividing_by_sum(odds) ==
    IF odds.type # "number" THEN None
    ELSE IF odds.val > 0
    THEN (IF odds.val + 100 = 0 THEN None ELSE round3(100, odds.val + 100))
    ELSE (IF odds.val + 100 = 0 THEN None
          ELSE round3(abs(odds.val), abs(odds.val) + 100))

\* calculate_confidence: the comparison raises TypeError on a value that is
\* no number and a zero divisor raises ZeroDivisionError, both caught and
\* answered with None
calculate_confidence(odds) ==
    IF odds.type # "number" THEN None
    ELSE IF odds.val > 0
    THEN (IF odds.val + 100 = 0 THEN None ELSE round3(100, odds.val + 100))
    ELSE (IF abs(odds.val) + 100 = 0 THEN None
          ELSE round3(abs(odds.val), abs(odds.val) + 100))

\* largest absolute value of the odds calculate_confidence is applied to
MaxOdds == 250

\* the arguments calculate_confidence is applied to
OddsInputs ==
    {Number(n) : n \in (0 - MaxOdds)..MaxOdds} \cup {Text, Null, Array}

\* one call of calculate_confidence on its own
ConfInit ==
    /\ IngestInit
    /\ db_players = {}
    /\ app_pc = "confidence"
    /\ app_upstream = "none"
    /\ app_games = <<>>
    /\ app_idx = 0
    /\ app_processed = <<>>
    /\ response = NoResponse
    /\ \E odds \in OddsInputs : lastConf = [odds |-> odds, result |-> None]
    /\ NoProcs

Calculate ==
    /\ app_pc = "confidence"
    /\ app_pc' = "returned"
    /\ lastConf' = [lastConf EXCEPT !.result = calculate_confidence(lastConf.odds)]
    /\ UNCHANGED <<app_upstream, app_games, app_idx, app_processed, response>>

ConfNext == Calculate /\ UNCHANGED <<ingestvars, concvars>>

ConfSpec == ConfInit /\ [][ConfNext]_vars

----------------------------------------------------------------------------
(* The web application: /api/picks *)

\* events of one upstream answer
MaxEvents == 3

\* dict.get(key): the value, None when the key is absent
Get(dict, key) == IF key \in DOMAIN dict THEN dict[key] ELSE None

\* Python's "not x" for the values met here: None and the empty list
Not(x) == x = None \/ x = <<>>

\* one bookmaker with one h2h market
Bookmaker(outcomes) ==
    [key |-> "draftkings", markets |-> <<[key |-> "h2h", outcomes |-> outcomes]>>]

\* the two sides of every modelled event
HomeTeam(id) == <<"home", id>>
AwayTeam(id) == <<"away", id>>

\* an event of the odds listing with both prices
PricedGame(id, home_price, away_price) ==
    [id |-> id, home_team |-> HomeTeam(id), away_team |-> AwayTeam(id),
     commence_time |-> <<"time", id>>,
     bookmakers |-> <<Bookmaker(<<[name |-> HomeTeam(id), price |-> home_price],
                                 [name |-> AwayTeam(id), price |-> away_price]>>)>>]

\* the kinds of event an answer of the odds listing is made of
PicksKinds == {"home_favourite", "away_favourite", "even", "rounded_even",
               "no_bookmakers", "empty_bookmakers", "no_away_price", "text_price",
               "no_markets", "no_commence_time"}

\* the event of one kind at one position of the answer
PicksGame(kind, id) ==
    CASE kind = "home_favourite" -> PricedGame(id, Number(0 - 150), Number(130))
      [] kind = "away_favourite" -> PricedGame(id, Number(130), Number(0 - 150))
      [] kind = "even" -> PricedGame(id, Number(0 - 110), Number(0 - 110))
      [] kind = "rounded_even" -> PricedGame(id, Number(1000), Number(1001))
      [] kind = "text_price" -> PricedGame(id, Text, Number(130))
      [] kind = "no_bookmakers" ->
            [id |-> id, home_team |-> HomeTeam(id), away_team |-> AwayTeam(id),
             commence_time |-> <<"time", id>>]
      [] kind = "empty_bookmakers" ->
            [id |-> id, home_team |-> HomeTeam(id), away_team |-> AwayTeam(id),
             commence_time |-> <<"time", id>>, bookmakers |-> <<>>]
      [] kind = "no_away_price" ->
            [id |-> id, home_team |-> HomeTeam(id), away_team |-> AwayTeam(id),
             commence_time |-> <<"time", id>>,
             bookmakers |-> <<Bookmaker(<<[name |-> HomeTeam(id),
                                          price |-> Number(0 - 150)]>>)>>]
      [] kind = "no_markets" ->
            [id |-> id, home_team |-> HomeTeam(id), away_team |-> AwayTeam(id),
             commence_time |-> <<"time", id>>,
             bookmakers |-> <<[key |-> "draftkings", markets |-> <<>>]>>]
      [] OTHER ->
            [id |-> id, home_team |-> HomeTeam(id), away_team |-> AwayTeam(id),
             bookmakers |-> <<Bookmaker(<<[name |-> HomeTeam(id), price |-> Number(130)],
                                         [name |-> AwayTeam(id),
                                          price |-> Number(0 - 150)]>>)>>]

\* the loop "for odd in odds: if odd['name'] == team: ... break": the price of
\* the first outcome of that name, None when there is none
PriceOf(odds, team) ==
    LET named == {i \in DOMAIN odds : odds[i].name = team}
    IN  IF named = {} THEN None
        ELSE odds[CHOOSE i \in named : \A j \in named : i <= j].price

\* whether the body of the loop of get_picks raises on an event that has
\* bookmakers: an index or a key it reads is missing
PicksRaises(game) ==
    \/ game.bookmakers[1].markets = <<>>
    \/ "outcomes" \notin DOMAIN game.bookmakers[1].markets[1]
    \/ \E i \in DOMAIN game.bookmakers[1].markets[1].outcomes :
         {"name", "price"} \ DOMAIN game.bookmakers[1].markets[1].outcomes[i] # {}
    \/ {"home_team", "away_team", "commence_time"} \ DOMAIN game # {}

\* a prediction that goes to the home side unless the away side is strictly
\* ahead, and reports the away side's confidence
PredictionHomeFirst(game, home_confidence, away_confidence) ==
    IF away_confidence.milli > home_confidence.milli
    THEN [predicted_winner |-> game.home_team, confidence |-> home_confidence]
    ELSE [predicted_winner |-> game.home_team, confidence |-> away_confidence]

\* a prediction that gives a tie to the home side
PredictionTieToHome(game, home_confidence, away_confidence) ==
    IF home_confidence.milli >= away_confidence.milli
    THEN [predicted_winner |-> game.home_team, confidence |-> home_confidence]
    ELSE [predicted_winner |-> game.away_team, confidence |-> away_confidence]

\* "Determine prediction": the home side when its confidence is greater,
\* else the away side
Prediction(game, home_confidence, away_confidence) ==
    IF home_confidence.milli > away_confidence.milli
    THEN [predicted_winner |-> game.home_team, confidence |-> home_confidence]
    ELSE [predicted_winner |-> game.away_team, confidence |-> away_confidence]

\* a loop body that lets an event without bookmakers through to the indexing
ProcessGameNoGuard(position, game) ==
    [kind |-> "entry",
     entry |-> [id |-> <<"str", position>>, team |-> game.home_team,
                opponent |-> game.away_team,
                prediction |-> <<game.home_team, "Win">>,
                confidence |-> Conf(0), start_time |-> Get(game, "commence_time"),
                odds |-> [home_odds |-> None, away_odds |-> None]]]

\* the body of the loop of get_picks for the event at a 1-based position: an
\* entry, a skip (continue), or an exception, which the loop catches and
\* treats as a skip
ProcessGame(position, game) ==
    IF Not(Get(game, "bookmakers")) THEN [kind |-> "skip", entry |-> None]
    ELSE IF PicksRaises(game) THEN [kind |-> "raise", entry |-> None]
    ELSE LET odds == game.bookmakers[1].markets[1].outcomes
             home_odds == PriceOf(odds, game.home_team)
             away_odds == PriceOf(odds, game.away_team)
         IN  IF home_odds = None \/ away_odds = None THEN [kind |-> "skip", entry |-> None]
             ELSE LET home_confidence == calculate_confidence(home_odds)
                      away_confidence == calculate_confidence(away_odds)
                  IN  IF home_confidence = None \/ away_confidence = None
                      THEN [kind |-> "skip", entry |-> None]
                      ELSE LET p == Prediction(game, home_confidence, away_confidence)
                           IN  [kind |-> "entry",
                                entry |-> [id |-> <<"str", position>>,
                                           team |-> game.home_team,
                                           opponent |-> game.away_team,
                                           prediction |-> <<p.predicted_winner, "Win">>,
                                           confidence |-> p.confidence,
                                           start_time |-> game.commence_time,
                                           odds |-> [home_odds |-> home_odds,
                                                     away_odds |-> away_odds]]]

\* what the top-level upstream call of a handler can do: answer 200 with a
\* list of events, answer another status, raise a request exception, or
\* answer 200 with a body that is no JSON
UpstreamOutcomes == {"200", "non200", "request_exception", "bad_body"}

\* 500 responses that carry the text of the exception caught
PicksErrorsWithCause(upstream) ==
    CASE upstream = "non200" -> {<<"error", "Failed to fetch from Odds API">>}
      [] upstream = "request_exception" -> {<<"error", <<"str", "ConnectionError">>>>}
      [] OTHER -> {<<"error", <<"str", "JSONDecodeError">>>>}

\* the 500 responses of get_picks; the decoding error of a body that is no
\* JSON is a request exception or not, depending on the requests release
PicksErrors(upstream) ==
    CASE upstream = "non200" -> {<<"error", "Failed to fetch from Odds API">>}
      [] upstream = "request_exception" -> {<<"error", "Failed to fetch game data">>}
      [] OTHER -> {<<"error", "Failed to fetch game data">>,
                   <<"error", "An unexpected error occurred">>}

\* get_picks up to its loop
PicksStart ==
    /\ app_pc = "idle"
    /\ \E upstream \in UpstreamOutcomes :
         /\ app_upstream' = upstream
         /\ IF upstream = "200"
            THEN \E n \in 0..MaxEvents : \E kinds \in [1..n -> PicksKinds] :
                   /\ app_games' = [i \in 1..n |-> PicksGame(kinds[i], i)]
                   /\ app_idx' = 1
                   /\ app_pc' = "picks"
                   /\ response' = response
            ELSE \E body \in PicksErrors(upstream) :
                   /\ response' = [status |-> 500, body |-> body]
                   /\ app_pc' = "picks_done"
                   /\ UNCHANGED <<app_games, app_idx>>
    /\ app_processed' = <<>>
    /\ UNCHANGED lastConf

\* one iteration of the loop of get_picks
PicksGameStep ==
    /\ app_pc = "picks"
    /\ app_idx <= Len(app_games)
    /\ LET done == ProcessGame(app_idx, app_games[app_idx])
       IN  app_processed' = IF done.kind = "entry" THEN Append(app_processed, done.entry)
                                                   ELSE app_processed
    /\ app_idx' = app_idx + 1
    /\ UNCHANGED <<app_pc, app_upstream, app_games, response, lastConf>>

\* return jsonify(processed_games)
PicksReturn ==
    /\ app_pc = "picks"
    /\ app_idx > Len(app_games)
    /\ response' = [status |-> 200, body |-> app_processed]
    /\ app_pc' = "picks_done"
    /\ UNCHANGED <<app_upstream, app_games, app_idx, app_processed, lastConf>>

----------------------------------------------------------------------------
(* The web application: /api/props *)

\* one outcome of a player-prop market
Outcome(name, player, price) ==
    [name |-> name, description |-> <<"player", player>>, point |-> 20, price |-> price]

\* an event of the events listing
Event(id) ==
    [id |-> id, home_team |-> HomeTeam(id), away_team |-> AwayTeam(id),
     commence_time |-> <<"time", id>>]

\* the kinds of event of the events listing, by what the odds of the event
\* turn out to be
PropsKinds == {"example", "two_markets", "non200", "no_bookmakers",
               "request_exception", "text_price", "no_description", "no_id"}

\* the event of one kind at one position of the listing
PropsGame(kind, id) ==
    IF kind = "no_id"
    THEN [home_team |-> HomeTeam(id), away_team |-> AwayTeam(id),
          commence_time |-> <<"time", id>>]
    ELSE Event(id)

\* the answer of the odds call for an event: its status and its body
PropsResponse(kind) ==
    CASE kind = "example" ->
            [status |-> 200,
             data |-> [bookmakers |-> <<[key |-> "draftkings", markets |->
                <<[key |-> "player_points", outcomes |->
                    <<Outcome("Over", 1, Number(0 - 900)), Outcome("Under", 1, Number(400)),
                      Outcome("Over", 2, Number(0 - 900)), Outcome("Under", 2, Number(0 - 100))>>
                  ]>>]>>]]
      [] kind = "two_markets" ->
            [status |-> 200,
             data |-> [bookmakers |-> <<[key |-> "draftkings", markets |->
                <<[key |-> "player_points", outcomes |->
                    <<Outcome("Over", 3, Number(0 - 150)), Outcome("Under", 3, Number(130))>>],
                  [key |-> "player_rebounds", outcomes |->
                    <<Outcome("Over", 3, Number(0 - 150))>>]>>]>>]]
      [] kind = "text_price" ->
            [status |-> 200,
             data |-> [bookmakers |-> <<[key |-> "draftkings", markets |->
                <<[key |-> "player_assists", outcomes |->
                    <<Outcome("Over", 4, Number(0 - 900)), Outcome("Under", 4, Text),
                      Outcome("Over", 5, Number(400))>>]>>]>>]]
      [] kind = "no_description" ->
            [status |-> 200,
             data |-> [bookmakers |-> <<[key |-> "draftkings", markets |->
                <<[key |-> "player_assists", outcomes |->
                    <<Outcome("Over", 6, Number(0 - 900)),
                      [name |-> "Under", point |-> 20, price |-> Number(400)],
                      Outcome("Over", 7, Number(400))>>]>>]>>]]
      [] kind = "no_bookmakers" -> [status |-> 200, data |-> [bookmakers |-> <<>>]]
      [] OTHER -> [status |-> 500, data |-> None]

\* the (market, outcome) pairs of a bookmaker in the order the two nested
\* loops visit them
RECURSIVE Visits(_, _)
Visits(markets, m) ==
    IF m > Len(markets) THEN <<>>
    ELSE [o \in DOMAIN markets[m].outcomes |->
            [market |-> markets[m], outcome |-> markets[m].outcomes[o]]]
         \o Visits(markets, m + 1)

\* market['key'].replace('player_', '').title()
MarketTitle(key) ==
    CASE key = "player_points" -> "Points"
      [] key = "player_rebounds" -> "Rebounds"
      [] OTHER -> "Assists"

\* the dictionary appended for one outcome
PropEntry(game, market, outcome, confidence) ==
    [id |-> <<game.id, market.key, outcome.name>>,
     game |-> <<game.home_team, "vs", game.away_team>>,
     start_time |-> game.commence_time,
     name |-> outcome.name,
     player |-> outcome.description,
     market |-> MarketTitle(market.key),
     line |-> outcome.point,
     odds |-> outcome.price,
     confidence |-> confidence]

\* whether appending one outcome raises: a key it reads is missing
OutcomeRaises(game, visit) ==
    \/ {"name", "description", "point", "price"} \ DOMAIN visit.outcome # {}
    \/ "key" \notin DOMAIN visit.market
    \/ {"id", "home_team", "away_team", "commence_time"} \ DOMAIN game # {}

\* the two nested loops from the visit at position v on: the entries
\* appended, up to the end or to the outcome that raises (an outcome whose
\* confidence is None is passed over)
RECURSIVE AppendProps(_, _, _, _)
AppendProps(game, visits, v, acc) ==
    IF v > Len(visits) THEN [props |-> acc, raised |-> FALSE]
    ELSE IF "price" \notin DOMAIN visits[v].outcome THEN [props |-> acc, raised |-> TRUE]
    ELSE LET confidence == calculate_confidence(visits[v].outcome.price)
         IN  IF confidence = None THEN AppendProps(game, visits, v + 1, acc)
             ELSE IF OutcomeRaises(game, visits[v]) THEN [props |-> acc, raised |-> TRUE]
             ELSE AppendProps(game, visits, v + 1,
                              Append(acc, PropEntry(game, visits[v].market,
                                                    visits[v].outcome, confidence)))

\* the body of the loop of get_player_props for one event of one kind: the
\* list afterwards, and whether an exception leaves the loop (the except
\* clause reads game['id'] for its message, which raises when the key is
\* missing)
ProcessProps(game, kind, acc) ==
    IF "id" \notin DOMAIN game THEN [props |-> acc, fatal |-> TRUE]
    ELSE IF kind = "request_exception" THEN [props |-> acc, fatal |-> FALSE]
    ELSE LET props_response == PropsResponse(kind)
         IN  IF props_response.status # 200 THEN [props |-> acc, fatal |-> FALSE]
             ELSE IF Not(Get(props_response.data, "bookmakers"))
             THEN [props |-> acc, fatal |-> FALSE]
             ELSE [props |-> AppendProps(game, Visits(props_response.data.bookmakers[1].markets, 1),
                                         1, acc).props,
                   fatal |-> FALSE]

\* an ascending insertion
InsertAscending(sorted, x) ==
    LET before == {i \in DOMAIN sorted : sorted[i].confidence.milli <= x.confidence.milli}
        k == Cardinality(before)
    IN  SubSeq(sorted, 1, k) \o <<x>> \o SubSeq(sorted, k + 1, Len(sorted))

\* where list.sort(key=confidence, reverse=True) puts one more element: after
\* the elements of greater or equal confidence (the sort is stable)
InsertDescending(sorted, x) ==
    LET before == {i \in DOMAIN sorted : sorted[i].confidence.milli >= x.confidence.milli}
        k == Cardinality(before)
    IN  SubSeq(sorted, 1, k) \o <<x>> \o SubSeq(sorted, k + 1, Len(sorted))

\* processed_props.sort(key=lambda x: x['confidence'], reverse=True)
RECURSIVE SortByConfidence(_, _)
SortByConfidence(props, n) ==
    IF n = 0 THEN <<>>
    ELSE InsertDescending(SortByConfidence(props, n - 1), props[n])

\* the number of props the response holds at most
TopProps == 10

\* processed_props[:10]
FirstTen(props) == SubSeq(props, 1, IF Len(props) < TopProps THEN Len(props) ELSE TopProps)

\* the 500 responses of get_player_props
PropsErrors(upstream) ==
    CASE upstream = "non200" -> {<<"error", "Failed to fetch games">>}
      [] upstream = "request_exception" -> {<<"error", "Failed to fetch prop data">>}
      [] OTHER -> {<<"error", "Failed to fetch prop data">>,
                   <<"error", "An unexpected error occurred">>}

\* get_player_props up to its loop; the kind of each event is kept with it
PropsStart ==
    /\ app_pc = "idle"
    /\ \E upstream \in UpstreamOutcomes :
         /\ app_upstream' = upstream
         /\ IF upstream = "200"
            THEN \E n \in 0..MaxEvents : \E kinds \in [1..n -> PropsKinds] :
                   /\ app_games' = [i \in 1..n |-> [kind |-> kinds[i],
                                                   game |-> PropsGame(kinds[i], i)]]
                   /\ app_idx' = 1
                   /\ app_pc' = "props"
                   /\ response' = response
            ELSE \E body \in PropsErrors(upstream) :
                   /\ response' = [status |-> 500, body |-> body]
                   /\ app_pc' = "props_done"
                   /\ UNCHANGED <<app_games, app_idx>>
    /\ app_processed' = <<>>
    /\ UNCHANGED lastConf

\* one iteration of the loop of get_player_props
PropsGameStep ==
    /\ app_pc = "props"
    /\ app_idx <= Len(app_games)
    /\ LET done == ProcessProps(app_games[app_idx].game, app_games[app_idx].kind,
                                app_processed)
       IN  /\ app_processed' = done.props
           /\ IF done.fatal
              THEN /\ response' = [status |-> 500,
                                   body |-> <<"error", "An unexpected error occurred">>]
                   /\ app_pc' = "props_done"
              ELSE UNCHANGED <<response, app_pc>>
    /\ app_idx' = app_idx + 1
    /\ UNCHANGED <<app_upstream, app_games, lastConf>>

\* the sort and return jsonify(processed_props[:10])
PropsReturn ==
    /\ app_pc = "props"
    /\ app_idx > Len(app_games)
    /\ response' = [status |-> 200,
                    body |-> FirstTen(SortByConfidence(app_processed, Len(app_processed)))]
    /\ app_pc' = "props_done"
    /\ UNCHANGED <<app_upstream, app_games, app_idx, app_processed, lastConf>>

\* the requests the web application serves; the ingestion script is another
\* process
AppNext ==
    \/ PicksStart /\ UNCHANGED <<ingestvars, concvars>>
    \/ PicksGameStep /\ UNCHANGED <<ingestvars, concvars>>
    \/ PicksReturn /\ UNCHANGED <<ingestvars, concvars>>
    \/ PropsStart /\ UNCHANGED <<ingestvars, concvars>>
    \/ PropsGameStep /\ UNCHANGED <<ingestvars, concvars>>
    \/ PropsReturn /\ UNCHANGED <<ingestvars, concvars>>

AppInit == IngestInit /\ db_players = {} /\ AppIdle /\ NoProcs

AppSpec == AppInit /\ [][AppNext]_vars

----------------------------------------------------------------------------
(* Two ingestion processes on one database: store_game_stats step by step *)

\* the processes; each has its own session, processed set and counters
Processes == {1, 2}

\* the rows each process works through: the season of the first player, then
\* that of the second
ConcGames ==
    ProviderGames(ProviderPlayers[1].id, seasons[1])
    \o ProviderGames(ProviderPlayers[2].id, seasons[1])

\* a table without the constraint: every insert is accepted
uix_player_game_not_declared(table, row) == TRUE

\* UniqueConstraint('player_id', 'game_id', name='uix_player_game'): whether
\* the table accepts the row
uix_player_game(table, row) == RowsFor(table, row.game_id, row.player_id) = {}

NoCall == [kind |-> "none", key |-> <<>>, ok |-> FALSE]

\* both processes are about to store their first row into an empty table
ConcInit ==
    /\ IngestInit
    /\ AppIdle
    /\ procs = [p \in Processes |->
                  [pc |-> "check", games |-> ConcGames, existing_game |-> None,
                   processed_game_ids |-> {}, games_processed |-> 0, errors |-> 0,
                   last |-> NoCall]]

\* where a process goes when it is done with the row at the head of rows
AfterRow(rows) == IF Tail(rows) = <<>> THEN "done" ELSE "check"

\* the process leaves store_game_stats with a return value and takes the
\* next row; process_player counts the row as processed or as an error
Returned(me, ok, kind, key, processed) ==
    [pc |-> AfterRow(me.games), games |-> Tail(me.games), existing_game |-> None,
     processed_game_ids |-> processed,
     games_processed |-> IF ok THEN me.games_processed + 1 ELSE me.games_processed,
     errors |-> IF ok THEN me.errors ELSE me.errors + 1,
     last |-> [kind |-> kind, key |-> key, ok |-> ok]]

\* process_game_data and the first half of store_game_stats in process p:
\* the processed-set shortcut, then the query for the existing row
ConcCheck(p) ==
    /\ procs # <<>>
    /\ procs[p].pc = "check"
    /\ LET me == procs[p]
           stats_data == process_game_data(Head(me.games), seasons[1])
       IN  IF stats_data = None
           THEN /\ procs' = [procs EXCEPT ![p] =
                               [me EXCEPT !.pc = AfterRow(me.games),
                                          !.games = Tail(me.games)]]
                /\ UNCHANGED db_errors
           ELSE IF game_player_key(stats_data) \in me.processed_game_ids
           THEN /\ procs' = [procs EXCEPT ![p] =
                               Returned(me, TRUE, "skip", game_player_key(stats_data),
                                        me.processed_game_ids)]
                /\ UNCHANGED db_errors
           ELSE \E outcome \in DbOutcomes \ {"commit_error"} :
                  IF outcome = "query_error"
                  THEN /\ procs' = [procs EXCEPT ![p] =
                                      Returned(me, FALSE, "query_error",
                                               game_player_key(stats_data),
                                               me.processed_game_ids)]
                       /\ db_errors' = db_errors + 1
                  ELSE /\ procs' = [procs EXCEPT ![p] =
                                      [me EXCEPT !.pc = "write",
                                                 !.existing_game =
                                                    First(RowsFor(db_stats,
                                                                  stats_data.game_id,
                                                                  stats_data.player_id))]]
                       /\ UNCHANGED db_errors
    /\ UNCHANGED <<db_stats, next_id>>

\* the second half of store_game_stats in process p: the update of the row
\* found or the insert of a new one, the processed set, then the commit; an
\* insert the constraint rejects raises IntegrityError at the commit
ConcWrite(p) ==
    /\ procs # <<>>
    /\ procs[p].pc = "write"
    /\ LET me == procs[p]
           stats_data == process_game_data(Head(me.games), seasons[1])
           key == game_player_key(stats_data)
           marked == me.processed_game_ids \cup {key}
       IN  \E outcome \in DbOutcomes \ {"query_error"} :
             IF me.existing_game # None
             THEN LET stored == {r \in db_stats : r.id = me.existing_game.id}
                      pending == (db_stats \ stored)
                                 \cup {UpdateRow(me.existing_game, stats_data)}
                  IN  IF outcome = "commit_error"
                      THEN /\ db_stats' = Rollback(db_stats, pending)
                           /\ db_errors' = db_errors + 1
                           /\ procs' = [procs EXCEPT ![p] =
                                          Returned(me, FALSE, "update", key, marked)]
                           /\ UNCHANGED next_id
                      ELSE /\ db_stats' = Commit(db_stats, pending)
                           /\ procs' = [procs EXCEPT ![p] =
                                          Returned(me, TRUE, "update", key, marked)]
                           /\ UNCHANGED <<next_id, db_errors>>
             ELSE LET stats == InsertRow(stats_data, next_id)
                      pending == db_stats \cup {stats}
                  IN  IF ~uix_player_game(db_stats, stats)
                      THEN /\ outcome = "ok"
                           /\ db_stats' = Rollback(db_stats, pending)
                           /\ procs' = [procs EXCEPT ![p] =
                                          Returned(me, FALSE, "integrity_error", key,
                                                   marked)]
                           /\ UNCHANGED <<next_id, db_errors>>
                      ELSE IF outcome = "commit_error"
                      THEN /\ db_stats' = Rollback(db_stats, pending)
                           /\ db_errors' = db_errors + 1
                           /\ procs' = [procs EXCEPT ![p] =
                                          Returned(me, FALSE, "insert", key, marked)]
                           /\ UNCHANGED next_id
                      ELSE /\ db_stats' = Commit(db_stats, pending)
                           /\ next_id' = next_id + 1
                           /\ procs' = [procs EXCEPT ![p] =
                                          Returned(me, TRUE, "insert", key, marked)]
                           /\ UNCHANGED db_errors

\* what the two processes leave alone
concframe == <<pc, run, now, db_players, cache, disk_queue, retry_queue,
               processed_player_ids, processed_game_ids, active_players, idx, sidx,
               games, games_processed, errors, consecutive_timeouts, last_timer_check,
               queue_copy, current_time, item, api_errors, lastFetch, lastStore,
               lastDrain, report, invoked>>

ConcNext ==
    \/ \E p \in Processes : ConcCheck(p) /\ UNCHANGED <<concframe, appvars>>
    \/ \E p \in Processes : ConcWrite(p) /\ UNCHANGED <<concframe, appvars>>

ConcSpec == ConcInit /\ [][ConcNext]_vars

----------------------------------------------------------------------------
(* Properties *)

\* a step of the game loop (main pass or retry pass) that calls
\* store_game_stats, and the mapped row it stores
InGameLoop == pc \in {"game", "retry_game"} /\ games # <<>>
CurSeason == IF pc = "game" THEN seasons[sidx] ELSE item.season
CurData == process_game_data(Head(games), CurSeason)
StoresRow == InGameLoop /\ CurData # None

\* the columns of a stored row, without its id
Columns(r) == [game_id |-> r.game_id, player_id |-> r.player_id, season |-> r.season,
               is_home_game |-> r.is_home_game, minutes_played |-> r.minutes_played,
               points |-> r.points]

\* C1: a raw game record mapped and stored for the first time without a
\* database error leaves exactly one row for its (player_id, game_id),
\* holding the mapped values; mapping and storing the same record again,
\* in the same invocation or in a later one, leaves that one row as it was.
C1_Idempotence ==
    [][StoresRow =>
         LET before == RowsFor(db_stats, CurData.game_id, CurData.player_id)
             after == RowsFor(db_stats', CurData.game_id, CurData.player_id)
         IN  /\ (before = {} /\ lastStore'.ok /\ lastStore'.kind = "insert")
                   => /\ Cardinality(after) = 1
                      /\ \A r \in after : Columns(r) = CurData
             /\ before # {} => (after = before /\ Cardinality(after) = 1
                                /\ db_stats' = db_stats)]_vars

\* C1 witness: in the second invocation a record stored by the first one
\* was mapped and stored again through the update branch, and its row is
\* the only one for the pair.
C1_Witness ==
    /\ run = 2
    /\ lastStore.kind = "update"
    /\ lastStore.ok
    /\ Cardinality(RowsFor(db_stats, lastStore.key[1], lastStore.key[2])) = 1

\* C2: in every reachable state of the database no (player_id, game_id) has
\* more than one player_stats row, and a pair that store_game_stats has just
\* written (inserted or updated) has exactly one, whichever invocation
\* wrote it.
C2_Uniqueness ==
    /\ \A r1 \in db_stats, r2 \in db_stats :
         (r1.player_id = r2.player_id /\ r1.game_id = r2.game_id) => r1 = r2
    /\ (lastStore.ok /\ lastStore.kind \in {"insert", "update"})
         => Cardinality(RowsFor(db_stats, lastStore.key[1], lastStore.key[2])) = 1

\* C2 witness: the second invocation has ended after writing a pair that the
\* first invocation had stored, and the table holds one row per pair.
C2_Witness ==
    /\ run = 2
    /\ pc = "verify"
    /\ lastStore.kind = "update"
    /\ lastStore.ok
    /\ db_stats # {}
    /\ \A r \in db_stats : Cardinality(RowsFor(db_stats, r.game_id, r.player_id)) = 1

\* the items of a queue, and the items of the snapshot file
Items(queue) == {queue[i] : i \in DOMAIN queue}
Snapshot == load_retry_queue(disk_queue)
SamePair(a, b) == a.player_id = b.player_id /\ a.season = b.season
InMainPass == pc \in {"player", "season", "game", "player_end", "after_loop"}

\* C3 as stated: at the end of the first invocation every (player, season)
\* whose calls all failed, that is every pair still queued, is in the
\* snapshot with retries = 0.
C3_PersistedWithZeroRetries ==
    (run = 1 /\ pc = "verify")
        => \A it \in Items(retry_queue) :
             \E s \in Items(Snapshot) : SamePair(s, it) /\ s.retries = 0

\* C3 amended: a pair whose fetch fails in the main pass is appended to the
\* retry queue with retries = 0; at the end of the first invocation the
\* snapshot holds the queue that is left, each pair with retries = 0 when
\* its cool-down was still running as the queue was drained and retries = 1
\* when it had elapsed and the attempt failed again; no entry of the queue
\* or of the snapshot ever counts more than max_retries retries.
C3_RetryAccounting ==
    /\ (InMainPass /\ lastFetch.site = "main" /\ lastFetch.result = "error")
         => /\ retry_queue # <<>>
            /\ LET it == retry_queue[Len(retry_queue)]
               IN  /\ it.player_id = lastFetch.player_id
                   /\ it.season = lastFetch.season
                   /\ it.retries = 0
    /\ (run = 1 /\ pc = "after_loop") => \A it \in Items(retry_queue) : it.retries = 0
    /\ (run = 1 /\ pc = "verify")
         => /\ retry_queue # <<>> => Snapshot = retry_queue
            /\ \A it \in Items(retry_queue) :
                 /\ it.retries \in {0, 1}
                 /\ it.retries = 1 => it.last_attempt >= current_time
    /\ \A it \in Items(retry_queue) \cup Items(queue_copy) \cup Items(Snapshot) :
         it.retries <= max_retries

\* C3 witness: the first invocation has ended with a pair in the snapshot
\* whose retry failed in that same invocation (retries = 1).
C3_Witness ==
    /\ run = 1
    /\ pc = "verify"
    /\ \E s \in Items(Snapshot) : s.retries = 1 /\ s \in Items(retry_queue)

\* C4: in process_player a (player, season) is appended to the retry queue,
\* with retries = 0, exactly when the provider call of get_player_games
\* failed (the None sentinel); a successful empty answer appends nothing,
\* stores nothing and does not enter the game loop.
C4_ErrorVersusNoData ==
    [][pc = "season" =>
         LET player == active_players[idx]
             season == seasons[sidx]
         IN  /\ (retry_queue' # retry_queue) <=> (lastFetch'.result = "error")
             /\ (retry_queue' # retry_queue)
                  => retry_queue' = Append(retry_queue,
                        [player_id |-> player.id, player_name |-> player.full_name,
                         season |-> season, retries |-> 0, last_attempt |-> now'])
             /\ lastFetch'.result = "empty"
                  => (db_stats' = db_stats /\ games' = <<>> /\ pc' # "game")]_vars

\* C4 witness: the fetch of the first player failed and the fetch of the
\* second gave no rows: only the first pair is queued and nothing is stored.
C4_Witness ==
    /\ lastFetch.site = "main"
    /\ lastFetch.result = "empty"
    /\ lastFetch.player_id = 2
    /\ Len(retry_queue) = 1
    /\ retry_queue[1].player_id = 1
    /\ retry_queue[1].retries = 0
    /\ db_stats = {}

\* C5 as stated: a pair is queued in the main pass only after the provider
\* call was retried, that is after more than one failed call.
C5_RetriedBeforeQueued ==
    (lastFetch.site = "main" /\ lastFetch.result = "error") => lastFetch.calls > 1

\* the step of process_retry_queue that visits one item
VisitsItem == pc = "drain" /\ queue_copy # <<>>
NoProviderCall == lastFetch' = lastFetch /\ now' = now /\ cache' = cache
                  /\ api_errors' = api_errors

\* C6 as stated: an item whose retries have reached max_retries is dropped
\* from the queue when process_retry_queue visits it.
C6_DroppedAtCeiling ==
    [][(VisitsItem /\ Head(queue_copy).retries >= max_retries)
         => (lastDrain'.action = "drop" /\ retry_queue' = retry_queue)]_vars

\* C6 amended: process_retry_queue never calls the provider for an item whose
\* retries have reached max_retries; it drops the item once the item's
\* cool-down has elapsed and puts it back unchanged before that; a retry
\* that fails puts the item back and the loop goes on with the next item.
C6_AttemptCeiling ==
    [][VisitsItem =>
         LET it == Head(queue_copy)
             cooled == current_time - it.last_attempt >= base_wait_time * (2 ^ it.retries)
         IN  /\ it.retries >= max_retries
                  => /\ NoProviderCall
                     /\ lastDrain'.action \in {"wait", "drop"}
                     /\ cooled => (lastDrain'.action = "drop" /\ retry_queue' = retry_queue)
                     /\ ~cooled => retry_queue' = Append(retry_queue, it)
             /\ lastDrain'.action = "error"
                  => /\ it.retries < max_retries
                     /\ retry_queue' = Append(retry_queue,
                           [it EXCEPT !.retries = it.retries + 1, !.last_attempt = now'])
             /\ pc' \in {"drain", "retry_game"}
             /\ queue_copy' = Tail(queue_copy)]_vars

\* C6 witness: an item at the attempt ceiling was dropped.
C6_Witness ==
    /\ lastDrain.action = "drop"
    /\ lastDrain.item.retries >= max_retries
    /\ ~(\E it \in Items(retry_queue) : it = lastDrain.item)

\* C7: process_retry_queue calls the provider for a queued pair only when
\* the time between its last attempt and the start of the pass is at least
\* base_wait_time * 2^retries; an item visited earlier than that is put back
\* with its retries and last_attempt unchanged, and no call is made.
C7_Cooldown ==
    [][VisitsItem =>
         LET it == Head(queue_copy)
             elapsed == current_time - it.last_attempt
             needed == base_wait_time * (2 ^ it.retries)
         IN  /\ lastDrain'.action \in {"rows", "empty", "error"} => elapsed >= needed
             /\ elapsed < needed
                  => /\ lastDrain'.action = "wait"
                     /\ retry_queue' = Append(retry_queue, it)
                     /\ NoProviderCall]_vars

\* C7 witness: an item whose cool-down was still running has been put back
\* unchanged at the end of the queue.
C7_Witness ==
    /\ lastDrain.action = "wait"
    /\ lastDrain.elapsed < base_wait_time * (2 ^ lastDrain.item.retries)
    /\ retry_queue # <<>>
    /\ retry_queue[Len(retry_queue)] = lastDrain.item

\* C8 as stated: every provider call, wherever it is made, follows a cache
\* lookup for its key that found nothing.
C8_CacheBeforeEveryCall ==
    lastFetch.calls > 0 => (lastFetch.lookup /\ ~lastFetch.cached)

\* C8 amended: with caching enabled, every provider call made by
\* get_player_games in the main pass and by get_active_players follows a
\* cache lookup for its key, and none is made for a key whose cached
\* response exists; the retry-queue pass calls the provider without looking
\* the key up, and only writes the cache.
C8_CacheBeforeNetwork ==
    /\ (lastFetch.site \in {"main", "players"} /\ lastFetch.calls > 0)
         => (lastFetch.lookup /\ ~lastFetch.cached)
    /\ (lastFetch.site \in {"main", "players"} /\ lastFetch.cached)
         => (lastFetch.calls = 0 /\ lastFetch.result = "cache")
    /\ lastFetch.site = "retry" => (~lastFetch.lookup /\ lastFetch.calls = 1)
    /\ (lastFetch.site \in {"main", "retry"} /\ lastFetch.result = "rows")
         => get_cache_path("games", lastFetch.player_id, lastFetch.season) \in cache

\* C8 witness: in a later invocation the games of a pair came from the cache
\* without a provider call.
C8_Witness ==
    /\ run = 2
    /\ lastFetch.site = "main"
    /\ lastFetch.cached
    /\ lastFetch.calls = 0
    /\ pc = "game"
    /\ games = ProviderGames(lastFetch.player_id, lastFetch.season)

\* C9 as stated: at the end of run_ingestion the snapshot on disk holds
\* exactly the items of the retry queue in memory, an empty queue included.
C9_SnapshotIsQueue ==
    pc = "verify" => Snapshot = retry_queue

\* C10: a database error in store_game_stats on one game row leaves both
\* tables as they were committed before the call, makes store_game_stats
\* return False, is counted as one error of the player, and process_player
\* goes on with the next row of the same player (or, after the last row,
\* with what follows the game loop).
C10_RowErrorIsolation ==
    [][(pc = "game" /\ games # <<>> /\ db_errors' = db_errors + 1)
         => /\ db_stats' = db_stats
            /\ db_players' = db_players
            /\ ~lastStore'.ok
            /\ errors' = errors + 1
            /\ games_processed' = games_processed
            /\ games' = Tail(games)
            /\ idx' = idx
            /\ pc' = IF Tail(games) # <<>> THEN "game" ELSE AfterSeason(sidx)]_vars

\* C10 witness: the first row of a player failed in the database, and the
\* next row of the same player was then stored.
C10_Witness ==
    /\ pc \in {"game", "season", "player_end"}
    /\ errors = 1
    /\ games_processed = 1
    /\ lastStore.site = "main"
    /\ lastStore.ok
    /\ lastStore.kind = "insert"
    /\ Cardinality(RowsFor(db_stats, lastStore.key[1], lastStore.key[2])) = 1

\* the player_ids and the primary keys of a players table
StoredPlayerIds(table) == {r.player_id : r \in table}
PlayerRowIds(table) == {r.id : r \in table}
PlayerRows(table, player_id) == {r \in table : r.player_id = player_id}

\* C11: every player_stats row has a player_id for which a players row is
\* stored (players rows are never removed, so it was stored earlier), in the
\* main pass and in the retry pass, within and across invocations; the game
\* loops only run for a player whose row is stored, and a player whose
\* store_player_data failed gets no game row: process_player returns at once.
C11_ReferentialIntegrity ==
    /\ \A r \in db_stats : r.player_id \in StoredPlayerIds(db_players)
    /\ pc \in {"season", "game"} => active_players[idx].id \in StoredPlayerIds(db_players)
    /\ pc = "retry_game" => item.player_id \in StoredPlayerIds(db_players)
    /\ \A it \in Items(retry_queue) \cup Items(queue_copy) \cup Items(Snapshot) :
         it.player_id \in StoredPlayerIds(db_players)

\* C11 witness: store_player_data failed for the first player, who has
\* neither a players row nor a game row, and the game rows of the second
\* player, whose row is stored, have been written.
C11_Witness ==
    /\ pc = "player_end"
    /\ idx = 2
    /\ db_errors > 0
    /\ active_players[1].id \notin StoredPlayerIds(db_players)
    /\ db_stats # {}
    /\ \A r \in db_stats : r.player_id = active_players[2].id

\* C12: store_player_data that goes through without a database error leaves
\* exactly one players row for the player: a new row when none was stored,
\* else the stored row (same primary key) with the name of the listing and
\* the active flag set, and never a second row; no step of the pipeline
\* removes a players row, so the stored player_ids and primary keys never
\* shrink.
C12_PlayerLifecycle ==
    [][/\ StoredPlayerIds(db_players) \subseteq StoredPlayerIds(db_players')
       /\ PlayerRowIds(db_players) \subseteq PlayerRowIds(db_players')
       /\ \A p \in PlayerIds : Cardinality(PlayerRows(db_players', p)) <= 1
       /\ pc # "player" => db_players' = db_players
       /\ (pc = "player" /\ db_errors' = db_errors) =>
            LET player == active_players[idx]
                before == PlayerRows(db_players, player.id)
                after == PlayerRows(db_players', player.id)
            IN  /\ Cardinality(after) = 1
                /\ \A r \in after : r.full_name = player.full_name /\ r.is_active
                /\ db_players' \ after = db_players \ before
                /\ before = {} => PlayerRowIds(after) \cap PlayerRowIds(db_players) = {}
                /\ before # {} => PlayerRowIds(after) = PlayerRowIds(before)
       /\ (pc = "player" /\ db_errors' # db_errors) => db_players' = db_players]_vars

\* C12 witness: in the first invocation the row an earlier listing had left
\* for the second player was found and updated to the name of this listing,
\* next to the row inserted for the first player.
C12_Witness ==
    /\ run = 1
    /\ idx = 2
    /\ pc = "season"
    /\ db_players = {[id |-> 2, player_id |-> 1, full_name |-> full_name(1),
                       is_active |-> TRUE],
                      [EarlierPlayerRow EXCEPT !.full_name = full_name(2)]}

\* the step that ends the iteration of the K-th, 2K-th, ... player
AtCheckpoint == pc = "player_end" /\ idx % batch_size = 0

\* C13 as stated: after every batch_size-th player the snapshot on disk is
\* the current retry queue, whenever that queue is not empty.
C13_SnapshotEveryBatch ==
    [][(AtCheckpoint /\ retry_queue # <<>>)
         => load_retry_queue(disk_queue') = retry_queue]_vars

\* C13 amended: after every batch_size-th player run_ingestion commits (every
\* store has committed its own write already, the tables stay as they are)
\* and calls update_timer; the snapshot of a non-empty retry queue is written
\* at that point only when at least timer_interval has passed since the last
\* timer update, which is then set to the present; otherwise, and after
\* every other player, the file and the timer are left as they are.
C13_PeriodicCheckpoint ==
    [][pc = "player_end" =>
         LET due == AtCheckpoint /\ now - last_timer_check >= timer_interval
         IN  /\ (due /\ retry_queue # <<>>) => load_retry_queue(disk_queue') = retry_queue
             /\ due => last_timer_check' = now
             /\ ~due => (disk_queue' = disk_queue /\ last_timer_check' = last_timer_check)
             /\ retry_queue = <<>> => disk_queue' = disk_queue
             /\ db_stats' = db_stats /\ db_players' = db_players
             /\ retry_queue' = retry_queue]_vars

\* C13 witness: the checkpoint after the second player of the first
\* invocation has written the snapshot of the queue.
C13_Witness ==
    /\ run = 1
    /\ pc = "after_loop"
    /\ idx % batch_size = 0
    /\ retry_queue # <<>>
    /\ disk_queue # <<>>
    /\ Snapshot = retry_queue
    /\ last_timer_check = now

\* the rows stored for one player_id and season, and the (player_id, season)
\* pairs of a table that have more than 82 of them
SeasonRowsOf(stats, player_id, season) ==
    {r \in stats : r.player_id = player_id /\ r.season = season}
Offending(stats) ==
    {ps \in {<<r.player_id, r.season>> : r \in stats} :
        Cardinality(SeasonRowsOf(stats, ps[1], ps[2])) > 82}
ListedPairs == {<<i.player_id, i.season>> : i \in report.listed}

InIntegrityPhase == pc \in {"cleanup", "verify"}
Duplicated(stats) ==
    {r \in stats : Cardinality(RowsFor(stats, r.game_id, r.player_id)) > 1}
\* some (player_id, game_id) is stored more than once: Duplicated(stats) # {}
AnyDuplicated(stats) ==
    Cardinality({<<r.player_id, r.game_id>> : r \in stats}) < Cardinality(stats)

\* C15 as stated: the integrity phase leaves both tables as they are,
\* whatever the checks find.
C15_IntegrityPhaseReadOnly ==
    [][InIntegrityPhase => (db_stats' = db_stats /\ db_players' = db_players)]_vars

\* C15 amended: verify_ingested_data leaves both tables as they are whatever
\* it finds, and no step of the integrity phase changes the players table or
\* inserts or updates a player_stats row; the duplicate clean-up that
\* precedes the verification deletes, of every (player_id, game_id) stored
\* more than once, the rows other than the one with the lowest id, so the
\* phase leaves player_stats unchanged exactly when no pair is duplicated.
C15_IntegrityPhaseEffect ==
    [][InIntegrityPhase =>
         /\ db_players' = db_players
         /\ db_stats' \subseteq db_stats
         /\ \A r \in db_stats \ db_stats' : r \in Duplicated(db_stats)
         /\ pc = "verify" => db_stats' = db_stats
         /\ ~AnyDuplicated(db_stats) => db_stats' = db_stats
         /\ (pc = "cleanup" /\ db_errors' = db_errors /\ AnyDuplicated(db_stats))
              => (db_stats' # db_stats /\ ~AnyDuplicated(db_stats'))]_vars

\* C15 witness: the integrity phase is over, the clean-up has deleted a
\* duplicated row and the verification has reported on what is left.
C15_Witness ==
    /\ pc = "idle"
    /\ report.status = "ok"
    /\ report.removed > 0
    /\ ~AnyDuplicated(db_stats)
    /\ db_stats # {}

\* a returned confidence and the exact quotient num / den differ by at most
\* half a thousandth
RoundedToThree(c, num, den) ==
    /\ c # None
    /\ 2 * abs(c.milli * den - 1000 * num) <= den

\* C16: for every integer odds o > 0 calculate_confidence(o) is 100/(o+100)
\* rounded to 3 decimals, for every integer o <= 0 it is |o|/(|o|+100)
\* rounded to 3 decimals; calculate_confidence(150) = 0.4 and
\* calculate_confidence(-150) = 0.6; 0 takes the second branch (0.0), 1 the
\* first.
C16_ConfidenceFormula ==
    (app_pc = "returned" /\ lastConf.odds.type = "number") =>
        LET o == lastConf.odds.val
        IN  /\ o > 0 => /\ RoundedToThree(lastConf.result, 100, o + 100)
                        /\ lastConf.result = round3(100, o + 100)
            /\ o <= 0 => /\ RoundedToThree(lastConf.result, abs(o), abs(o) + 100)
                         /\ lastConf.result = round3(abs(o), abs(o) + 100)
            /\ o = 150 => lastConf.result = Conf(400)
            /\ o = 0 - 150 => lastConf.result = Conf(600)
            /\ o = 0 => lastConf.result = Conf(0)
            /\ o = 1 => lastConf.result = Conf(990)

\* C16 witness: calculate_confidence(-150) has returned 0.6.
C16_Witness ==
    /\ app_pc = "returned"
    /\ lastConf.odds = Number(0 - 150)
    /\ lastConf.result = Conf(600)

\* C17: calculate_confidence returns None on an argument that is no number,
\* and on every number, 0 and -100 included, a value between 0 and 1
\* inclusive, never None.
C17_ConfidenceTotal ==
    app_pc = "returned" =>
        /\ lastConf.odds.type # "number" => lastConf.result = None
        /\ lastConf.odds.type = "number" =>
             /\ lastConf.result # None
             /\ lastConf.result.milli >= 0
             /\ lastConf.result.milli <= 1000

\* C17 witness: calculate_confidence(-100) has returned 0.5.
C17_Witness ==
    /\ app_pc = "returned"
    /\ lastConf.odds = Number(0 - 100)
    /\ lastConf.result = Conf(500)

\* an event of the odds listing that is well-formed: its first bookmaker's
\* first market prices both of its teams with a number, and it has a start
\* time
HasPrice(game, team) ==
    \E i \in DOMAIN game.bookmakers[1].markets[1].outcomes :
        /\ game.bookmakers[1].markets[1].outcomes[i].name = team
        /\ game.bookmakers[1].markets[1].outcomes[i].price.type = "number"
WellFormed(game) ==
    /\ "bookmakers" \in DOMAIN game
    /\ game.bookmakers # <<>>
    /\ game.bookmakers[1].markets # <<>>
    /\ HasPrice(game, game.home_team)
    /\ HasPrice(game, game.away_team)
    /\ "commence_time" \in DOMAIN game

\* get_picks has gone through the events before position n of a 200 answer
\* that is a list of events
PicksSeen == IF app_pc \in {"picks", "picks_done"} /\ app_idx >= 1 THEN app_idx - 1 ELSE 0
WellFormedSeen == {i \in 1..PicksSeen : WellFormed(app_games[i])}

\* C18: given a 200 upstream answer that lists events, get_picks omits every
\* event without bookmaker data, without a home or away price, or whose
\* processing raises, gives exactly one entry, in order, for every
\* well-formed event, and responds with HTTP 200 and those entries.
C18_PartialFailureIsolation ==
    (app_pc \in {"picks", "picks_done"} /\ app_idx >= 1) =>
        /\ Len(app_processed) = Cardinality(WellFormedSeen)
        /\ \A i \in WellFormedSeen :
             Cardinality({k \in DOMAIN app_processed :
                             app_processed[k].id = <<"str", i>>}) = 1
        /\ \A k \in DOMAIN app_processed :
             /\ app_processed[k].id[2] \in WellFormedSeen
             /\ app_processed[k].team = app_games[app_processed[k].id[2]].home_team
             /\ \A j \in DOMAIN app_processed :
                  k < j => app_processed[k].id[2] < app_processed[j].id[2]
        /\ app_pc = "picks_done" =>
             /\ PicksSeen = Len(app_games)
             /\ response = [status |-> 200, body |-> app_processed]

\* C18 witness: of three events the second had no bookmakers key; the
\* response is 200 with the entries of the first and the third.
C18_Witness ==
    /\ app_pc = "picks_done"
    /\ Len(app_games) = 3
    /\ "bookmakers" \notin DOMAIN app_games[2]
    /\ response.status = 200
    /\ Len(response.body) = 2
    /\ response.body[1].id = <<"str", 1>>
    /\ response.body[2].id = <<"str", 3>>

\* the entries of a 200 response of /api/picks
PicksEntries ==
    IF app_pc = "picks_done" /\ response.status = 200
    THEN {response.body[k] : k \in DOMAIN response.body} ELSE {}

\* C19: in every entry /api/picks returns, the predicted winner is the home
\* or the away side of the event, a side whose confidence is not below the
\* other's, and the confidence field is the greater of
\* calculate_confidence(home_odds) and calculate_confidence(away_odds).
C19_MoneylinePrediction ==
    \A e \in PicksEntries :
        LET home == calculate_confidence(e.odds.home_odds).milli
            away == calculate_confidence(e.odds.away_odds).milli
        IN  /\ e.prediction[1] \in {e.team, e.opponent}
            /\ e.prediction[2] = "Win"
            /\ e.prediction[1] = e.team => home >= away
            /\ e.prediction[1] = e.opponent => away >= home
            /\ home > away => e.prediction[1] = e.team
            /\ away > home => e.prediction[1] = e.opponent
            /\ e.confidence.milli = IF home >= away THEN home ELSE away
            /\ e.odds.home_odds = PriceOf(app_games[e.id[2]].bookmakers[1].markets[1].outcomes,
                                          e.team)
            /\ e.odds.away_odds = PriceOf(app_games[e.id[2]].bookmakers[1].markets[1].outcomes,
                                          e.opponent)

\* C19 witness: a response with one entry won by the home side (-150
\* against 130, confidence 0.6) and one won by the away side.
C19_Witness ==
    /\ app_pc = "picks_done"
    /\ response.status = 200
    /\ Len(response.body) = 2
    /\ response.body[1].prediction[1] = response.body[1].team
    /\ response.body[1].confidence = Conf(600)
    /\ response.body[2].prediction[1] = response.body[2].opponent
    /\ response.body[2].odds.away_odds = Number(0 - 150)

\* the place of the prop collected at position k in the order by confidence
\* descending, ties in encounter order
Rank(props, k) ==
    1 + Cardinality({j \in DOMAIN props :
                        \/ props[j].confidence.milli > props[k].confidence.milli
                        \/ /\ props[j].confidence.milli = props[k].confidence.milli
                           /\ j < k})

\* C20: /api/props returns at most 10 entries: the first 10 of the collected
\* props in the order by confidence descending with ties in encounter order;
\* the confidences 0.9, 0.2, 0.9, 0.5 come back as 0.9, 0.9, 0.5, 0.2, the
\* 0.9 met first in front.
C20_PropRanking ==
    (app_pc = "props_done" /\ response.status = 200) =>
        /\ Len(response.body) <= 10
        /\ Len(response.body) = IF Len(app_processed) < 10 THEN Len(app_processed) ELSE 10
        /\ \A k \in DOMAIN app_processed :
             Rank(app_processed, k) <= 10
                => response.body[Rank(app_processed, k)] = app_processed[k]
        /\ \A i \in DOMAIN response.body, j \in DOMAIN response.body :
             i < j => response.body[i].confidence.milli >= response.body[j].confidence.milli
        /\ (Len(app_games) = 1 /\ app_games[1].kind = "example")
             => /\ [i \in 1..4 |-> app_processed[i].confidence] =
                      <<Conf(900), Conf(200), Conf(900), Conf(500)>>
                /\ response.body = <<app_processed[1], app_processed[3],
                                     app_processed[4], app_processed[2]>>

\* C20 witness: twelve props were collected, those of confidence 0.9 among
\* them tie, and the response holds ten, led by the 0.9 met first.
C20_Witness ==
    /\ app_pc = "props_done"
    /\ response.status = 200
    /\ Len(app_processed) = 12
    /\ Len(response.body) = 10
    /\ response.body[1] = app_processed[1]
    /\ response.body[2] = app_processed[3]
    /\ response.body[2].confidence = response.body[1].confidence
    /\ response.body[1] # response.body[2]

----------------------------------------------------------------------------
\* the fixed messages of the two handlers, by handler and by failure
PicksMessages == {"Failed to fetch from Odds API", "Failed to fetch game data",
                  "An unexpected error occurred"}
PropsMessages == {"Failed to fetch games", "Failed to fetch prop data",
                  "An unexpected error occurred"}
\* the response is a 500 whose body is {"error": <one of the messages>}
GenericError(messages) ==
    /\ response.status = 500
    /\ Len(response.body) = 2
    /\ response.body[1] = "error"
    /\ response.body[2] \in messages
UpstreamFailed == app_upstream \in {"non200", "request_exception", "bad_body"}
\* the loop of get_player_props met an event whose processing raised out of
\* the per-event handler (an event without 'id')
RaisedOutOfLoop ==
    /\ app_pc \in {"props", "props_done"}
    /\ app_upstream = "200"
    /\ \E i \in 1..(app_idx - 1) : i <= Len(app_games) /\ "id" \notin DOMAIN app_games[i].game

\* C21: when the top-level upstream call of /api/picks or /api/props answers
\* a status other than 200, raises a request exception, or an exception no
\* inner handler catches occurs (the undecodable body of a 200 answer, an
\* event whose error message cannot be built), the handler has returned,
\* at once, a 500 whose body is {"error": m} with m one of the handler's
\* fixed messages; a handler that has returned, has returned a 200 or a 500.
C21_UpstreamFailureResponse ==
    /\ UpstreamFailed =>
          /\ app_pc \in {"picks_done", "props_done"}
          /\ app_pc = "picks_done" => GenericError(PicksMessages)
          /\ app_pc = "props_done" => GenericError(PropsMessages)
          /\ (app_pc = "picks_done" /\ app_upstream = "non200") =>
                response.body[2] = "Failed to fetch from Odds API"
          /\ (app_pc = "props_done" /\ app_upstream = "non200") =>
                response.body[2] = "Failed to fetch games"
          /\ (app_pc = "picks_done" /\ app_upstream = "request_exception") =>
                response.body[2] = "Failed to fetch game data"
          /\ (app_pc = "props_done" /\ app_upstream = "request_exception") =>
                response.body[2] = "Failed to fetch prop data"
    /\ RaisedOutOfLoop =>
          /\ app_pc = "props_done"
          /\ GenericError({"An unexpected error occurred"})
    /\ app_pc \in {"picks_done", "props_done"} => response.status \in {200, 500}

\* /api/picks has answered a 500 for an upstream status other than 200
C21_Witness ==
    /\ app_pc = "picks_done"
    /\ app_upstream = "non200"
    /\ response = [status |-> 500, body |-> <<"error", "Failed to fetch from Odds API">>]

----------------------------------------------------------------------------
\* C22: whenever store_player_data has returned True a committed players row
\* of that player_id exists, and whenever store_game_stats has returned True
\* a committed player_stats row of that (player_id, game_id) exists, also
\* when the call follows a failed, rolled-back call for the same key.
C22_StoreSuccessImpliesStored ==
    /\ (pc = "season" /\ sidx = 1) =>
          active_players[idx].id \in StoredPlayerIds(db_players)
    /\ (lastStore.site # "none" /\ lastStore.ok) =>
          RowsFor(db_stats, lastStore.key[1], lastStore.key[2]) # {}

----------------------------------------------------------------------------
\* the next row of a game loop maps to a key that is in the processed set
KeyAlreadyProcessed == StoresRow /\ game_player_key(CurData) \in processed_game_ids

\* C23: a store_game_stats call for a key that is in the processed set of
\* the invocation returns True and leaves the committed rows, the id
\* sequence and the processed set as they are; it is logged as a skip, that
\* is, it counted neither an insert nor an update (nor an error).
C23_SkippedWithinRun ==
    [][KeyAlreadyProcessed =>
         /\ lastStore'.ok
         /\ lastStore'.kind = "skip"
         /\ lastStore'.key = game_player_key(CurData)
         /\ db_stats' = db_stats
         /\ next_id' = next_id
         /\ processed_game_ids' = processed_game_ids
         /\ db_errors' = db_errors]_vars

\* the retry pass has met a key the main pass of the same invocation stored
C23_Witness ==
    /\ lastStore.site = "retry"
    /\ lastStore.kind = "skip"
    /\ lastStore.ok
    /\ lastStore.key \in processed_game_ids
    /\ RowsFor(db_stats, lastStore.key[1], lastStore.key[2]) # {}

----------------------------------------------------------------------------
\* process_player has returned for a player whose fetch of every season
\* failed in the main pass (every season is the one season of the model)
AllFetchesFailed ==
    /\ pc = "player_end"
    /\ Len(seasons) = 1
    /\ lastFetch.site = "main"
    /\ lastFetch.player_id = active_players[idx].id
    /\ lastFetch.result = "error"

\* C24: a player that ends with every one of its season fetches failing is
\* counted as one more player failed in succession, and when more than 3
\* have failed in succession the loop head takes the long break and resets
\* the counter before the next player.
C24_ConsecutiveFailureBreak ==
    [][/\ AllFetchesFailed => consecutive_timeouts' = consecutive_timeouts + 1
       /\ (pc = "player" /\ consecutive_timeouts > 3) => consecutive_timeouts' = 0]_vars

----------------------------------------------------------------------------
\* the row of lowest id among the rows of the (player_id, game_id) of r
Earliest(stats, r) ==
    CHOOSE e \in RowsFor(stats, r.game_id, r.player_id) :
        \A q \in RowsFor(stats, r.game_id, r.player_id) : e.id <= q.id

\* C25: when clean_duplicate_entries has run without an error, every
\* (player_id, game_id) that had rows has exactly one row left, the one that
\* had the lowest id, with its columns as they were; the rows of pairs that
\* had a single row are all still there, no row was added, and the number
\* reported as removed is the number of rows that went.
C25_DuplicateCleanup ==
    [][(pc = "cleanup" /\ db_errors' = db_errors) =>
         /\ \A r \in db_stats :
               RowsFor(db_stats', r.game_id, r.player_id) = {Earliest(db_stats, r)}
         /\ \A r \in db_stats :
               RowsFor(db_stats, r.game_id, r.player_id) = {r} => r \in db_stats'
         /\ db_stats' \subseteq db_stats
         /\ report'.removed = Cardinality(db_stats) - Cardinality(db_stats')]_vars

\* the clean-up has met a pair of three rows and removed two of them
C25_Witness ==
    /\ pc = "verify"
    /\ report.removed = 2
    /\ db_errors = 0
    /\ Duplicated(db_stats) = {}
    /\ DuplicateRow(NumTablePlayers, seasons[1], 1) \notin db_stats
    /\ \E r \in db_stats : /\ r.player_id = NumTablePlayers
                           /\ r.game_id = DuplicateRow(NumTablePlayers, seasons[1], 1).game_id
                           /\ r.id < DuplicateRow(NumTablePlayers, seasons[1], 1).id

----------------------------------------------------------------------------
\* get_player_props has gone through the events before position n of a 200
\* listing
PropsSeen == IF app_pc \in {"props", "props_done"} /\ app_upstream = "200" /\ app_idx >= 1
             THEN app_idx - 1 ELSE 0
\* the props collected from the event at position i
PropsOf(i) == {k \in DOMAIN app_processed : app_processed[k].id[1] = i}
\* the outcomes the odds of an event of one kind list
OutcomesOf(kind) == Len(Visits(PropsResponse(kind).data.bookmakers[1].markets, 1))
\* the processing of the event at position i raises: an outcome lacks a key,
\* the odds request fails, or the event has no 'id'
EventRaises(i) == app_games[i].kind \in {"no_description", "request_exception", "no_id"}

\* C26: in /api/props an event whose odds answer is not 200, that has no
\* bookmakers, or whose processing raises contributes no props, keeps no
\* later event from being processed and does not fail the request: every
\* event of the listing is visited, the events that are in order contribute
\* all their props, and the response is a 200.
C26_PerEventIsolation ==
    /\ \A i \in 1..PropsSeen :
          /\ app_games[i].kind \in {"non200", "no_bookmakers"} => PropsOf(i) = {}
          /\ EventRaises(i) => PropsOf(i) = {}
          /\ app_games[i].kind \in {"example", "two_markets"} =>
                Cardinality(PropsOf(i)) = OutcomesOf(app_games[i].kind)
    /\ (app_pc = "props_done" /\ app_upstream = "200") =>
          /\ PropsSeen = Len(app_games)
          /\ response.status = 200

----------------------------------------------------------------------------
\* C27: in every state, over any sequence of invocations with the snapshot
\* enabled, the retry queue holds at most one entry per (player_id, season).
C27_RetryQueueKeyUniqueness ==
    \A i, j \in DOMAIN retry_queue :
        SamePair(retry_queue[i], retry_queue[j]) => i = j

----------------------------------------------------------------------------
\* the ids of the first n players of the list run_ingestion iterates
RosterIds(n) == [i \in 1..n |-> active_players[i].id]
InLoop == pc \in {"player", "season", "game", "player_end"}
PastLoop == pc \in {"after_loop", "drain", "retry_game", "final", "cleanup", "verify"}

\* C28: in an invocation over a non-empty list, process_player is called for
\* the players in list order, once each: while the loop runs the calls made
\* so far are those for the first players of the list up to the current one,
\* and past the loop they are those for the whole list, whatever failed for
\* any player; and an invocation that has entered the loop gets to the step
\* after the retry drain and to its completion.
C28_EveryPlayerOnce ==
    /\ [](InLoop => invoked = RosterIds(IF pc = "player" THEN idx - 1 ELSE idx))
    /\ [](PastLoop => invoked = RosterIds(Len(active_players)))
    /\ (pc = "player" /\ idx = 1) ~> (pc = "final")
    /\ (pc = "final") ~> (pc = "idle")

\* the loop is over: one player's fetch failed, another's store failed, and
\* process_player was called for the first player, then for the second
C28_Witness ==
    /\ pc = "final"
    /\ run = 1
    /\ Len(active_players) = 2
    /\ invoked = <<active_players[1].id, active_players[2].id>>
    /\ api_errors >= 1
    /\ db_errors >= 1

----------------------------------------------------------------------------
\* the row process p is storing
CurrentData(p) == process_game_data(Head(procs[p].games), seasons[1])
\* process p found no row at its check and another process has committed
\* one for the same (player_id, game_id) since
LosesRace(p) ==
    /\ procs[p].pc = "write"
    /\ procs[p].existing_game = None
    /\ RowsFor(db_stats, CurrentData(p).game_id, CurrentData(p).player_id) # {}

\* C29: with two ingestion processes that interleave the check and the
\* insert of store_game_stats on one database, the table never holds two
\* rows of one (player_id, game_id); the process whose insert comes second
\* is refused by uix_player_game: the table is left as it is, the process
\* counts one error, returns False and goes on with its next row.
C29_ConcurrentRuns ==
    /\ [](\A r, q \in db_stats :
            (r.player_id = q.player_id /\ r.game_id = q.game_id) => r = q)
    /\ [][\A p \in Processes :
            (procs # <<>> /\ LosesRace(p) /\ procs'[p] # procs[p]) =>
                /\ db_stats' = db_stats
                /\ procs'[p].errors = procs[p].errors + 1
                /\ procs'[p].games_processed = procs[p].games_processed
                /\ procs'[p].last = [kind |-> "integrity_error",
                                     key |-> game_player_key(CurrentData(p)),
                                     ok |-> FALSE]
                /\ procs'[p].games = Tail(procs[p].games)
                /\ procs'[p].pc = AfterRow(procs[p].games)]_vars

\* both processes are through; one of them was refused once, no other
\* database error occurred, and the table holds one row per stored pair
C29_Witness ==
    /\ procs # <<>>
    /\ \A p \in Processes : procs[p].pc = "done"
    /\ db_errors = 0
    /\ procs[1].errors + procs[2].errors = 1
    /\ procs[1].games_processed + procs[2].games_processed = 5
    /\ Cardinality(db_stats) = 3

----------------------------------------------------------------------------
\* C30: in every entry /api/picks returns, equal home and away confidences
\* (both sides at -110, or prices whose confidences round to the same
\* thousandth) give the away side as predicted winner, with that
\* confidence; the home side is predicted exactly when its confidence is
\* strictly greater.
C30_MoneylineTieBreak ==
    \A e \in PicksEntries :
        LET home == calculate_confidence(e.odds.home_odds)
            away == calculate_confidence(e.odds.away_odds)
        IN  /\ e.team # e.opponent
            /\ home = away => (e.prediction = <<e.opponent, "Win">> /\ e.confidence = away)
            /\ e.prediction = <<e.team, "Win">> <=> home.milli > away.milli
            /\ e.prediction = <<e.opponent, "Win">> <=> home.milli <= away.milli

\* /api/picks has answered for an event priced -110 on both sides and for
\* one priced +1000 / +1001: both predictions are the away side
C30_Witness ==
    /\ app_pc = "picks_done"
    /\ response.status = 200
    /\ Len(response.body) = 2
    /\ response.body[1].odds = [home_odds |-> Number(0 - 110), away_odds |-> Number(0 - 110)]
    /\ response.body[1].prediction = <<AwayTeam(1), "Win">>
    /\ response.body[1].confidence = Conf(524)
    /\ response.body[2].odds = [home_odds |-> Number(1000), away_odds |-> Number(1001)]
    /\ response.body[2].prediction = <<AwayTeam(2), "Win">>
    /\ response.body[2].confidence = Conf(91)

====
